---- MODULE Spec2Model ----
(***************************************************************************)
(* Login conversation, Session Manager, Session Registry and Background    *)
(* Runner registry of the userbot control bot (src/bot/handlers.py,        *)
(* src/bot/session_creator.py, src/main.py).                               *)
(*                                                                         *)
(* Update handlers run one at a time (main.py builds the Application       *)
(* without concurrent updates), so a handler is interleaved only with the  *)
(* background tasks created by asyncio.create_task, at the handler's       *)
(* awaits.  The login handlers touch no state a background task reads      *)
(* between their awaits except the credential file, and are single steps;  *)
(* the Background Runner handlers are split at their awaits.               *)
(***************************************************************************)
EXTENDS Integers, Sequences, FiniteSets, TLC

Users == {1, 2}
Chats == {1, 2}

\* The chats in which a user talks to the bot: user 1 in two, user 2 in one.
ChatsOf(u) == IF u = 1 THEN {1, 2} ELSE {1}

\* Bounds of the model.
MaxTokens == 2      \* challenge tokens the network issues per user
MaxTasks == 2       \* background task objects alive per user

VARIABLES
    conv,                 \* ConversationHandler state per (user, chat)
    session_creators,     \* keys of the session_creators dict
    sc,                   \* the SessionCreator object of each key
    net,                  \* the network's side of each user's login
    file,                 \* the credential file session_<id>.session
    task,                 \* the asyncio tasks run_userbot_for_user(user)
    userbot_tasks,        \* main.userbot_tasks: user -> task (0: no key)
    userbot_clients,      \* main.userbot_clients: user -> client (0: no key)
    userbot_start_times,  \* main.userbot_start_times: user -> run (0: no key)
    h,                    \* the update handler in progress
    todo,                 \* session files post_init has still to start
    last,                 \* the last completed handler step and its result
    config,               \* the settings held by config.Config and its instance
    env,                  \* the .env file and the process environment
    view                  \* the channel management view last shown

vars == <<conv, session_creators, sc, net, file, task, userbot_tasks,
          userbot_clients, userbot_start_times, h, todo, last, config, env, view>>

loginVars == <<conv, session_creators, sc, net>>
runnerVars == <<task, userbot_tasks, userbot_clients, userbot_start_times>>
adminVars == <<config, env, view>>

----------------------------------------------------------------------------
\* LoginState (handlers.py) plus the two inactive values: no conversation
\* yet, and ConversationHandler.END (the conversation is terminated).
WAITING_PHONE == "WAITING_PHONE"
WAITING_CODE == "WAITING_CODE"
WAITING_2FA == "WAITING_2FA"
END == "END"
NO_CONVERSATION == "NONE"

ActiveStates == {WAITING_PHONE, WAITING_CODE, WAITING_2FA}
ConvStates == ActiveStates \cup {END, NO_CONVERSATION}

\* The characters of a text message: digits and one non-digit.
Digits == {"1", "2"}
Chars == Digits \cup {" "}

\* The code messages a user sends: no digit, one digit, digits with other
\* characters around them, two digits.
CodeInputs == {<<" ">>, <<"1">>, <<"2">>, <<"1", " ">>, <<" ", "2">>,
               <<"1", "2">>, <<"2", " ", "1">>}

\* The code the network sent with challenge token t.
CodeOfToken(t) == IF t = 1 THEN <<"1">> ELSE IF t = 2 THEN <<"2">>
                  ELSE IF t = 3 THEN <<"1", "2">> ELSE <<"2", "1">>

\* The code passed on as typed, without the filter.
FilterDigits_unfiltered(s) == s

\* ''.join(filter(str.isdigit, code))
RECURSIVE FilterDigits(_)
FilterDigits(s) ==
    IF s = <<>> THEN <<>>
    ELSE IF Head(s) \in Digits THEN <<Head(s)>> \o FilterDigits(Tail(s))
    ELSE FilterDigits(Tail(s))

\* The user-facing messages of SessionCreator, by name.
Messages == {"code_sent", "phone_invalid", "phone_banned", "flood", "error",
             "error_expired_text", "session_ended", "digits_only", "signed_in",
             "need_2fa", "invalid_resent", "invalid_no_resend",
             "expired_resent", "expired_no_resend", "bad_password", "none"}

\* "expired" in message.lower(): the fixed messages are Uzbek ("Kod
\* eskirdi ..."), so only f"Error: {str(e)}" with such an exception text
\* contains the word.
ContainsExpired(message) == message = "error_expired_text"

\* A SessionCreator after __init__.
NewSessionCreator == [client |-> "none", phone_number |-> FALSE, phone_code_hash |-> 0]

Ret(success, message, needs_2fa) ==
    [success |-> success, message |-> message, needs_2fa |-> needs_2fa]

NoRet == Ret(FALSE, "none", FALSE)

----------------------------------------------------------------------------
\* SessionCreator.delete_session: os.remove of the session file.
delete_session(f) == "none"

\* TelegramClient(session_path, ...): the client opens the session file of
\* that path and creates it, without an authorization, when there is none.
TelegramClient(f) == IF f = "none" THEN "unauth" ELSE f

\* SessionCreator.start_login.  o is what the network answers.
StartLoginOutcomes(n) ==
    {"connect_error", "phone_invalid", "phone_banned", "flood", "error"}
        \cup (IF n.token < MaxTokens THEN {"sent"} ELSE {})

\* start_login with the old session file left in place.
StartLoginFile_without_delete(f) == TelegramClient(f)

\* self.delete_session(), then TelegramClient(self.session_path, ...)
StartLoginFile(f) == TelegramClient(delete_session(f))

\* The calls on the client and the session file, in the order made; an
\* earlier client is disconnected (whatever that raises is passed over), and
\* a connect() that raises ends the calls.
start_login(s, n, f, o) ==
    [sc |-> [client |-> IF o = "connect_error" THEN "disconnected" ELSE "connected",
             phone_number |-> TRUE,
             phone_code_hash |-> IF o = "sent" THEN n.token + 1 ELSE s.phone_code_hash],
     net |-> [token |-> IF o = "sent" THEN n.token + 1 ELSE n.token, password |-> FALSE],
     file |-> StartLoginFile(f),
     steps |-> (IF s.client # "none" THEN <<"disconnect">> ELSE <<>>)
                   \o <<"delete_session", "TelegramClient", "connect">>
                   \o (IF o # "connect_error" THEN <<"send_code_request">> ELSE <<>>),
     ret |-> IF o = "sent" THEN Ret(TRUE, "code_sent", FALSE)
             ELSE IF o = "connect_error" THEN Ret(FALSE, "error", FALSE)
             ELSE Ret(FALSE, o, FALSE)]

\* SessionCreator.verify_code.  o is the answer to sign_in, r the answer to
\* the automatic send_code_request.
CodeMatches(s, n, digits) ==
    /\ n.token # 0
    /\ s.phone_code_hash = n.token
    /\ digits = CodeOfToken(n.token)

SignInAnswers == {"signed_in", "need_2fa", "invalid", "expired", "flood", "error",
                  "error_expired_text"}
ResendAnswers == {"sent", "fail"}
PasswordAnswers == {"signed_in", "bad_password", "flood", "error"}
UserInfoAnswers == {"info", "fail"}

SignInOutcomes(s, n, digits) ==
    {"expired", "flood", "error", "error_expired_text"}
        \cup (IF CodeMatches(s, n, digits) THEN {"signed_in", "need_2fa"} ELSE {"invalid"})

ResendOutcomes(n) == {"fail"} \cup (IF n.token < MaxTokens THEN {"sent"} ELSE {})

\* The resend of verify_code reporting the new code as a success.
resend_code_reporting_success(called, n, o, r) ==
    IF r = "sent"
    THEN [called EXCEPT !.sc.phone_code_hash = n.token + 1,
                        !.net.token = n.token + 1,
                        !.requests = 1]
            @@ [ret |-> Ret(TRUE, o \o "_resent", FALSE)]
    ELSE [called EXCEPT !.requests = 1]
            @@ [ret |-> Ret(FALSE, o \o "_no_resend", FALSE)]

\* The resend of verify_code with the new phone_code_hash not stored.
resend_code_keeping_hash(called, n, o, r) ==
    IF r = "sent"
    THEN [called EXCEPT !.net.token = n.token + 1, !.requests = 1]
            @@ [ret |-> Ret(FALSE, o \o "_resent", FALSE)]
    ELSE [called EXCEPT !.requests = 1]
            @@ [ret |-> Ret(FALSE, o \o "_no_resend", FALSE)]

\* The resend of verify_code asking a second time when the request fails.
resend_code_retrying(called, n, o, r) ==
    IF r = "sent"
    THEN [called EXCEPT !.sc.phone_code_hash = n.token + 1,
                        !.net.token = n.token + 1,
                        !.requests = 1]
            @@ [ret |-> Ret(FALSE, o \o "_resent", FALSE)]
    ELSE [called EXCEPT !.requests = 2]
            @@ [ret |-> Ret(FALSE, o \o "_no_resend", FALSE)]

\* except PhoneCodeInvalidError / PhoneCodeExpiredError of verify_code: ask
\* for a new code and keep its hash; called is the state after sign_in.
resend_code(called, n, o, r) ==
    IF r = "sent"
    THEN [called EXCEPT !.sc.phone_code_hash = n.token + 1,
                        !.net.token = n.token + 1,
                        !.requests = 1]
            @@ [ret |-> Ret(FALSE, o \o "_resent", FALSE)]
    ELSE [called EXCEPT !.requests = 1]
            @@ [ret |-> Ret(FALSE, o \o "_no_resend", FALSE)]

\* The first check of verify_code testing the client only.
HoldsChallenge_client_only(s) == s.client # "none"

\* not (not self.client or not self.phone_number or not self.phone_code_hash)
HoldsChallenge(s) == s.client # "none" /\ s.phone_number /\ s.phone_code_hash # 0

verify_code(s, n, f, code, o, r) ==
    LET digits == FilterDigits(code)
        same == [sc |-> s, net |-> n, file |-> f, sent |-> <<>>, requests |-> 0]
    IN  IF ~HoldsChallenge(s)
        THEN same @@ [ret |-> Ret(FALSE, "session_ended", FALSE)]
        ELSE IF digits = <<>>
        THEN same @@ [ret |-> Ret(FALSE, "digits_only", FALSE)]
        ELSE IF s.client = "disconnected" /\ o = "error"
        THEN \* client.connect() raised
             same @@ [ret |-> Ret(FALSE, "error", FALSE)]
        ELSE LET c == [s EXCEPT !.client = "connected"]
                 called == [sc |-> c, net |-> n, file |-> f, sent |-> digits, requests |-> 0]
             IN  CASE o = "signed_in" ->
                        [called EXCEPT !.file = "auth"]
                            @@ [ret |-> Ret(TRUE, "signed_in", FALSE)]
                   [] o = "need_2fa" ->
                        [called EXCEPT !.net.password = TRUE]
                            @@ [ret |-> Ret(TRUE, "need_2fa", TRUE)]
                   [] o \in {"invalid", "expired"} -> resend_code(called, n, o, r)
                   [] OTHER -> called @@ [ret |-> Ret(FALSE, o, FALSE)]

\* SessionCreator.verify_2fa.
PasswordOutcomes(s, n) ==
    {"bad_password", "flood", "error"}
        \cup (IF s.client = "connected" /\ n.password THEN {"signed_in"} ELSE {})

verify_2fa(s, n, f, o) ==
    IF s.client = "none"
    THEN [sc |-> s, net |-> n, file |-> f, ret |-> Ret(FALSE, "session_ended", FALSE)]
    ELSE IF o = "signed_in"
    THEN [sc |-> s, net |-> [n EXCEPT !.password = FALSE], file |-> "auth",
          ret |-> Ret(TRUE, "signed_in", FALSE)]
    ELSE [sc |-> s, net |-> n, file |-> f, ret |-> Ret(FALSE, o, FALSE)]

\* SessionCreator.get_user_info: TRUE for the dict, FALSE for None.
get_user_info(s, o) == s.client # "none" /\ o = "info"

\* disconnect leaving phone_number and phone_code_hash in place.
disconnect_keeping_token(s, d) ==
    IF s.client = "none" \/ d = "ok"
    THEN [sc |-> [s EXCEPT !.client = "none"], raised |-> FALSE]
    ELSE [sc |-> [s EXCEPT !.client = IF d = "raise_closed" THEN "disconnected" ELSE @],
          raised |-> TRUE]

\* What session.save() and client.disconnect() of the Telethon client do.
DisconnectAnswers == {"ok", "raise_open", "raise_closed"}

\* SessionCreator.disconnect.  d is what the client's session.save() and
\* disconnect() do: nothing here catches what they raise, and the fields are
\* cleared only after they have returned.  A SessionCreator without a
\* client calls neither.
disconnect(s, d) ==
    IF s.client = "none" \/ d = "ok"
    THEN [sc |-> NewSessionCreator, raised |-> FALSE]
    ELSE [sc |-> [s EXCEPT !.client = IF d = "raise_closed" THEN "disconnected" ELSE @],
          raised |-> TRUE]

\* SessionCreator.session_exists
session_exists(f) == f # "none"

\* remove_session_creator emptying the registry.
remove_session_creator_clearing(keys, u) == {}

\* get_session_creator / remove_session_creator on the registry keys
get_session_creator(keys, u) == keys \cup {u}

remove_session_creator(keys, u) == keys \ {u}

\* get_session_creator building a new SessionCreator on every call.
SessionCreatorOf_always_new(u) == NewSessionCreator

\* The object get_session_creator returns.
SessionCreatorOf(u) == IF u \in session_creators THEN sc[u] ELSE NewSessionCreator

----------------------------------------------------------------------------
\* The handler slot: PTB awaits each update's handler before the next one.
\* pc is the await the handler is suspended at, client the client or task
\* object it holds, before the registry entries of the user when
\* start_userbot_for_user_background was entered, wakeup whether the handler
\* is handle_wakeup_userbot, stopped the task it has cancelled, and update
\* whether it handles an update of user u (post_init handles none).
Idle == [pc |-> "idle", u |-> 0, client |-> 0, before |-> <<0, 0, 0>>,
         wakeup |-> FALSE, stopped |-> 0, update |-> FALSE]

\* Polling starts after post_init has returned.
Polling == h.pc = "idle" /\ todo = {}

\* The record of a completed handler or operation: its result, whether it
\* raised, and whether what it raised escaped from a SessionCreator method.
\* call is what verify_code was given and what it passed on: the text, the
\* code handed to sign_in (<<>>: sign_in not called) and the number of
\* send_code_request calls; steps is the calls start_login made.
NoCall == [code |-> <<>>, sent |-> <<>>, requests |-> 0, steps |-> <<>>]

\* What check_subscription worked on: the channels it asked about, the
\* answer of get_chat_member for each of them, and the channels it found
\* missing.
NoCheck == [channels |-> <<>>, answers |-> <<>>, missing |-> <<>>]

\* A remove button of the channel management view: the index in its
\* callback data remove_channel_<index> and the channel in its label.
Button(index, channel) == [index |-> index, channel |-> channel]
NoButton == Button(-1, [prefix |-> "", name |-> ""])

Done(op, u, c, ret, raised) ==
    [op |-> op, u |-> u, c |-> c, ret |-> ret, raised |-> raised, escaped |-> FALSE,
     call |-> NoCall, check |-> NoCheck, button |-> NoButton]

Escaped(op, u, c, ret) == [Done(op, u, c, ret, TRUE) EXCEPT !.escaped = TRUE]

Called(rec, code, res) ==
    [rec EXCEPT !.call = [code |-> code, sent |-> res.sent, requests |-> res.requests,
                          steps |-> <<>>]]

\* What a login handler leaves: the registry keys, the SessionCreator object
\* of user u it worked on (also when it is no longer registered), the network
\* side, the credential file and the conversation of (u, c).
LoginStep(u, c, keys, s, n, f, state) ==
    /\ session_creators' = keys
    /\ sc' = [sc EXCEPT ![u] = s]
    /\ net' = [net EXCEPT ![u] = n]
    /\ file' = [file EXCEPT ![u] = f]
    /\ conv' = [conv EXCEPT ![u][c] = state]

\* connect_callback going on to the phone request whatever
\* check_subscription said.
connect_callback_ungated(u, c, is_subscribed) ==
    /\ Polling
    /\ conv[u][c] \notin ActiveStates
    /\ LoginStep(u, c, get_session_creator(session_creators, u),
                 SessionCreatorOf(u), net[u], file[u], WAITING_PHONE)
    /\ last' = Done("connect_callback", u, c, Ret(is_subscribed, "none", FALSE), FALSE)
    /\ UNCHANGED <<runnerVars, adminVars, h, todo>>

\* handlers.connect_callback: the only entry point of the conversation.
connect_callback(u, c, is_subscribed) ==
    /\ Polling
    /\ conv[u][c] \notin ActiveStates
    /\ IF is_subscribed
       THEN LoginStep(u, c, get_session_creator(session_creators, u),
                      SessionCreatorOf(u), net[u], file[u], WAITING_PHONE)
       ELSE UNCHANGED <<loginVars, file>>
    /\ last' = Done("connect_callback", u, c, Ret(is_subscribed, "none", FALSE), FALSE)
    /\ UNCHANGED <<runnerVars, adminVars, h, todo>>

\* phone_received returning WAITING_2FA instead of WAITING_CODE once the code
\* is sent.
phone_received_to_2fa(u, c, o) ==
    /\ Polling
    /\ conv[u][c] = WAITING_PHONE
    /\ o \in StartLoginOutcomes(net[u])
    /\ LET res == start_login(SessionCreatorOf(u), net[u], file[u], o)
       IN  /\ IF res.ret.success
              THEN LoginStep(u, c, get_session_creator(session_creators, u),
                             res.sc, res.net, res.file, WAITING_2FA)
              ELSE LoginStep(u, c, remove_session_creator(session_creators, u),
                             res.sc, res.net, res.file, END)
           /\ last' = Done("phone_received", u, c, res.ret, FALSE)
    /\ UNCHANGED <<runnerVars, adminVars, h, todo>>

\* phone_received ending the conversation on a start_login failure without
\* remove_session_creator.
phone_received_keeping_creator(u, c, o) ==
    /\ Polling
    /\ conv[u][c] = WAITING_PHONE
    /\ o \in StartLoginOutcomes(net[u])
    /\ LET res == start_login(SessionCreatorOf(u), net[u], file[u], o)
       IN  /\ LoginStep(u, c, get_session_creator(session_creators, u),
                        res.sc, res.net, res.file,
                        IF res.ret.success THEN WAITING_CODE ELSE END)
           /\ last' = Done("phone_received", u, c, res.ret, FALSE)
    /\ UNCHANGED <<runnerVars, adminVars, h, todo>>

\* phone_received asking for the phone number again after a start_login
\* failure instead of ending the conversation.
phone_received_retrying(u, c, o) ==
    /\ Polling
    /\ conv[u][c] = WAITING_PHONE
    /\ o \in StartLoginOutcomes(net[u])
    /\ LET res == start_login(SessionCreatorOf(u), net[u], file[u], o)
       IN  /\ LoginStep(u, c, get_session_creator(session_creators, u),
                        res.sc, res.net, res.file,
                        IF res.ret.success THEN WAITING_CODE ELSE WAITING_PHONE)
           /\ last' = Done("phone_received", u, c, res.ret, FALSE)
    /\ UNCHANGED <<runnerVars, adminVars, h, todo>>

\* handlers.phone_received
phone_received(u, c, o) ==
    /\ Polling
    /\ conv[u][c] = WAITING_PHONE
    /\ o \in StartLoginOutcomes(net[u])
    /\ LET res == start_login(SessionCreatorOf(u), net[u], file[u], o)
       IN  /\ IF res.ret.success
              THEN LoginStep(u, c, get_session_creator(session_creators, u),
                             res.sc, res.net, res.file, WAITING_CODE)
              ELSE LoginStep(u, c, remove_session_creator(session_creators, u),
                             res.sc, res.net, res.file, END)
           /\ last' = Done("phone_received", u, c, res.ret, FALSE)
    /\ UNCHANGED <<runnerVars, adminVars, h, todo>>

\* The success branch with remove_session_creator but without
\* session_creator.disconnect().
SuccessBranch_without_disconnect(u, c, op, res, g, d, call) ==
    LET keys == get_session_creator(session_creators, u)
    IN  IF ~get_user_info(res.sc, g)
        THEN /\ LoginStep(u, c, keys, res.sc, res.net, res.file, conv[u][c])
             /\ last' = [Done(op, u, c, res.ret, TRUE) EXCEPT !.call = call]
        ELSE /\ LoginStep(u, c, remove_session_creator(keys, u),
                          res.sc, res.net, res.file, END)
             /\ last' = [Done(op, u, c, res.ret, FALSE) EXCEPT !.call = call]

\* The success branch shared by code_received and password_received:
\* user_info = await get_user_info(); user_info['first_name'] raises
\* TypeError on None, and a handler that raises leaves the conversation
\* state as it was.
SuccessBranch(u, c, op, res, g, d, call) ==
    LET keys == get_session_creator(session_creators, u)
        closed == disconnect(res.sc, d)
    IN  IF ~get_user_info(res.sc, g)
        THEN /\ LoginStep(u, c, keys, res.sc, res.net, res.file, conv[u][c])
             /\ last' = [Done(op, u, c, res.ret, TRUE) EXCEPT !.call = call]
        ELSE IF closed.raised
        THEN /\ LoginStep(u, c, keys, closed.sc, res.net, res.file, conv[u][c])
             /\ last' = [Escaped(op, u, c, res.ret) EXCEPT !.call = call]
        ELSE /\ LoginStep(u, c, remove_session_creator(keys, u),
                          closed.sc, res.net, res.file, END)
             /\ last' = [Done(op, u, c, res.ret, FALSE) EXCEPT !.call = call]

\* The needs_2fa branch treated as the end of the login: disconnect, remove
\* the entry, END.
Needs2FABranch_ending(u, c, res, code) ==
    /\ LoginStep(u, c, remove_session_creator(session_creators, u),
                 NewSessionCreator, res.net, res.file, END)
    /\ last' = Called(Done("code_received", u, c, res.ret, FALSE), code, res)

\* The needs_2fa branch of code_received: ask for the password.
Needs2FABranch(u, c, res, code) ==
    /\ LoginStep(u, c, get_session_creator(session_creators, u),
                 res.sc, res.net, res.file, WAITING_2FA)
    /\ last' = Called(Done("code_received", u, c, res.ret, FALSE), code, res)

\* handlers.code_received
code_received(u, c, code, o, r, g, d) ==
    /\ Polling
    /\ conv[u][c] = WAITING_CODE
    /\ o \in SignInOutcomes(SessionCreatorOf(u), net[u], FilterDigits(code))
    /\ r \in (IF o \in {"invalid", "expired"} THEN ResendOutcomes(net[u]) ELSE {"fail"})
    /\ g \in (IF o = "signed_in" THEN UserInfoAnswers ELSE {"info"})
    /\ d \in (IF o \in {"signed_in", "error_expired_text"} THEN DisconnectAnswers
              ELSE {"ok"})
    /\ LET res == verify_code(SessionCreatorOf(u), net[u], file[u], code, o, r)
           keys == get_session_creator(session_creators, u)
           closed == disconnect(res.sc, d)
       IN  IF res.ret.needs_2fa
           THEN Needs2FABranch(u, c, res, code)
           ELSE IF res.ret.success
           THEN SuccessBranch(u, c, "code_received", res, g, d,
                              Called(Done("code_received", u, c, res.ret, FALSE),
                                     code, res).call)
           ELSE IF ~ContainsExpired(res.ret.message)
           THEN /\ LoginStep(u, c, keys, res.sc, res.net, res.file, WAITING_CODE)
                /\ last' = Called(Done("code_received", u, c, res.ret, FALSE), code, res)
           ELSE IF closed.raised
           THEN /\ LoginStep(u, c, keys, closed.sc, res.net, res.file, WAITING_CODE)
                /\ last' = Called(Escaped("code_received", u, c, res.ret), code, res)
           ELSE /\ LoginStep(u, c, remove_session_creator(keys, u),
                             closed.sc, res.net, res.file, END)
                /\ last' = Called(Done("code_received", u, c, res.ret, FALSE), code, res)
    /\ UNCHANGED <<runnerVars, adminVars, h, todo>>

\* handlers.password_received
password_received(u, c, o, g, d) ==
    /\ Polling
    /\ conv[u][c] = WAITING_2FA
    /\ o \in PasswordOutcomes(SessionCreatorOf(u), net[u])
    /\ g \in (IF o = "signed_in" THEN UserInfoAnswers ELSE {"info"})
    /\ d \in (IF o = "signed_in" THEN DisconnectAnswers ELSE {"ok"})
    /\ LET res == verify_2fa(SessionCreatorOf(u), net[u], file[u], o)
       IN  IF res.ret.success
           THEN SuccessBranch(u, c, "password_received", res, g, d, NoCall)
           ELSE /\ LoginStep(u, c, get_session_creator(session_creators, u),
                             res.sc, res.net, res.file, WAITING_2FA)
                /\ last' = Done("password_received", u, c, res.ret, FALSE)
    /\ UNCHANGED <<runnerVars, adminVars, h, todo>>

\* The body of handlers.cancel_callback for an update whose callback_query
\* is has_query: query.answer() on None raises AttributeError before
\* anything is cleaned up.
CancelBody(u, c, op, has_query, d) ==
    /\ Polling
    /\ conv[u][c] \in ActiveStates
    /\ LET keys == get_session_creator(session_creators, u)
           closed == disconnect(SessionCreatorOf(u), d)
       IN  IF ~has_query
           THEN /\ UNCHANGED <<loginVars, file>>
                /\ last' = Done(op, u, c, NoRet, TRUE)
           ELSE IF closed.raised
           THEN /\ LoginStep(u, c, keys, closed.sc, net[u], file[u], conv[u][c])
                /\ last' = Escaped(op, u, c, NoRet)
           ELSE /\ LoginStep(u, c, remove_session_creator(keys, u),
                             closed.sc, net[u], file[u], END)
                /\ last' = Done(op, u, c, NoRet, FALSE)
    /\ UNCHANGED <<runnerVars, adminVars, h, todo>>

\* The fallback CallbackQueryHandler(cancel_callback, pattern="^cancel$")
cancel_callback(u, c, d) == CancelBody(u, c, "cancel_callback", TRUE, d)

\* The fallback CommandHandler("cancel", cancel_message): a message update
\* carries no callback_query.
cancel_message(u, c) == CancelBody(u, c, "cancel_message", FALSE, "ok")

----------------------------------------------------------------------------
FileStates == {"none", "unauth", "auth"}

\* An asyncio task of run_userbot_for_user and the TelegramClient it builds.
\* pc is the await the coroutine is suspended at; cancel is a pending
\* Task.cancel(); authkey is whether the session file held an authorization
\* when the client opened it; loaded, unauthorized and nofile are what the run
\* did (modules loaded, unauthorized branch taken, returned for lack of a
\* session file); before is the registry entries of the user when the
\* start_userbot_for_user_background that created the task was entered; timer
\* is the auto_sleep_timer task of the run ("none", "armed" while it sleeps,
\* "disconnected" once it has disconnected the client, "elapsed" when it
\* found the client disconnected), which holds the client of this run and
\* outlives the run.
NewTask == [pc |-> "unused", connected |-> FALSE, cancel |-> FALSE,
            authkey |-> FALSE, loaded |-> FALSE, unauthorized |-> FALSE,
            nofile |-> FALSE, before |-> <<0, 0, 0>>, timer |-> "none"]

TaskIds == 1..MaxTasks

\* Task.done()
done(u, t) == task[u][t].pc \in {"done", "unused"}

Live(u) == {t \in TaskIds : ~done(u, t)}

\* del d[user_id]
Del(d, u) == [d EXCEPT ![u] = 0]

\* The finally block of run_userbot_for_user entered by task t in state tk:
\* a connected client is disconnected first (an await), then the user's
\* entries are deleted, whichever run wrote them.
\* A finished task keeps what its run did (loaded, unauthorized) and whether
\* its client is still connected.
Finished(tk) == [tk EXCEPT !.pc = "done", !.cancel = FALSE, !.authkey = FALSE,
                           !.before = <<0, 0, 0>>]

Finally(u, t, tk) ==
    IF tk.connected
    THEN /\ task' = [task EXCEPT ![u][t] = [tk EXCEPT !.pc = "fin_disc"]]
         /\ UNCHANGED <<userbot_clients, userbot_start_times>>
    ELSE /\ task' = [task EXCEPT ![u][t] = Finished(tk)]
         /\ userbot_clients' = Del(userbot_clients, u)
         /\ userbot_start_times' = Del(userbot_start_times, u)

\* A step of task t is taken by the event loop; a cancelled task's next step
\* is the CancelledError.
Runs(u, t, pc) == task[u][t].pc = pc /\ ~task[u][t].cancel

TaskFrame == UNCHANGED <<loginVars, adminVars, userbot_tasks, h, todo, last>>

\* run_userbot_for_user without the os.path.exists(session_path) check.
run_userbot_for_user_unchecked(u, t) ==
    /\ Runs(u, t, "created")
    /\ task' = [task EXCEPT ![u][t].pc = "connect",
                            ![u][t].authkey = (file[u] = "auth")]
    /\ userbot_clients' = [userbot_clients EXCEPT ![u] = t]
    /\ userbot_start_times' = [userbot_start_times EXCEPT ![u] = t]
    /\ UNCHANGED file
    /\ TaskFrame

\* run_userbot_for_user up to its first await: no session file, no run.
run_userbot_for_user(u, t) ==
    /\ Runs(u, t, "created")
    /\ IF ~session_exists(file[u])
       THEN /\ task' = [task EXCEPT ![u][t] =
                                Finished([task[u][t] EXCEPT !.nofile = TRUE])]
            /\ UNCHANGED <<userbot_clients, userbot_start_times>>
       ELSE /\ task' = [task EXCEPT ![u][t].pc = "connect",
                                    ![u][t].authkey = (file[u] = "auth")]
            /\ userbot_clients' = [userbot_clients EXCEPT ![u] = t]
            /\ userbot_start_times' = [userbot_start_times EXCEPT ![u] = t]
    /\ UNCHANGED file
    /\ TaskFrame

\* await client.connect()
client_connect(u, t, o) ==
    /\ Runs(u, t, "connect")
    /\ IF o = "ok"
       THEN /\ task' = [task EXCEPT ![u][t].pc = "is_user_authorized",
                                    ![u][t].connected = TRUE]
            /\ UNCHANGED <<userbot_clients, userbot_start_times>>
       ELSE Finally(u, t, task[u][t])
    /\ UNCHANGED file
    /\ TaskFrame

\* await client.is_user_authorized()
is_user_authorized(u, t, o) ==
    /\ Runs(u, t, "is_user_authorized")
    /\ o = "yes" => task[u][t].connected /\ task[u][t].authkey
    /\ o = "no" => task[u][t].connected
    /\ CASE o = "yes" ->
               /\ task' = [task EXCEPT ![u][t].pc = "get_me"]
               /\ UNCHANGED <<userbot_clients, userbot_start_times>>
         [] o = "no" ->
               /\ task' = [task EXCEPT ![u][t].pc = "unauthorized_disconnect",
                                       ![u][t].unauthorized = TRUE]
               /\ UNCHANGED <<userbot_clients, userbot_start_times>>
         [] OTHER -> Finally(u, t, task[u][t])
    /\ UNCHANGED file
    /\ TaskFrame

\* The unauthorized branch without os.remove(session_path).
unauthorized_branch_keeping_file(u, t) ==
    /\ Runs(u, t, "unauthorized_disconnect")
    /\ Finally(u, t, [task[u][t] EXCEPT !.connected = FALSE])
    /\ UNCHANGED file
    /\ TaskFrame

\* The unauthorized branch after its await client.disconnect(): delete the
\* client entry (KeyError when it is gone: the outer except, no removal),
\* remove the session file, return through finally.
unauthorized_branch(u, t) ==
    /\ Runs(u, t, "unauthorized_disconnect")
    /\ Finally(u, t, [task[u][t] EXCEPT !.connected = FALSE])
    /\ file' = IF userbot_clients[u] # 0 THEN [file EXCEPT ![u] = "none"] ELSE file
    /\ TaskFrame

\* The timer created with every run, whatever AUTO_SLEEP_HOURS is.
sleep_task_always(sleep_hours) == "armed"

\* if sleep_hours > 0: sleep_task = asyncio.create_task(auto_sleep_timer())
sleep_task(sleep_hours) == IF sleep_hours > 0 THEN "armed" ELSE "none"

\* await client.get_me(), then ModuleLoader.load_all_modules() and the
\* auto-sleep timer
get_me(u, t, o) ==
    /\ Runs(u, t, "get_me")
    /\ o = "ok" => task[u][t].connected
    /\ IF o = "ok"
       THEN /\ task' = [task EXCEPT ![u][t].pc = "run_until_disconnected",
                                    ![u][t].loaded = TRUE,
                                    ![u][t].timer = sleep_task(config.AUTO_SLEEP_HOURS)]
            /\ UNCHANGED <<userbot_clients, userbot_start_times>>
       ELSE Finally(u, t, task[u][t])
    /\ UNCHANGED file
    /\ TaskFrame

\* A timer that looks its client up in userbot_clients when it wakes.
auto_sleep_timer_registered(u, t) ==
    /\ task[u][t].timer = "armed"
    /\ LET c == userbot_clients[u]
           hit == c # 0 /\ task[u][c].connected
           fired == [task EXCEPT ![u][t].timer = IF hit THEN "disconnected"
                                                 ELSE "elapsed"]
       IN  task' = IF c = 0 THEN fired
                   ELSE [fired EXCEPT ![u][c].connected = FALSE]
    /\ UNCHANGED <<userbot_clients, userbot_start_times, file>>
    /\ TaskFrame

\* auto_sleep_timer after its asyncio.sleep(sleep_time): the client of its
\* run is disconnected if it is still connected.
auto_sleep_timer(u, t) ==
    /\ task[u][t].timer = "armed"
    /\ task' = [task EXCEPT ![u][t].timer = IF task[u][t].connected THEN "disconnected"
                                            ELSE "elapsed",
                            ![u][t].connected = FALSE]
    /\ UNCHANGED <<userbot_clients, userbot_start_times, file>>
    /\ TaskFrame

\* The connection of a running client ends without the program asking for
\* it: the network drops it.  Where no timer step is taken this stands for
\* the timer of the running task as well.
connection_lost(u, t) ==
    /\ Runs(u, t, "run_until_disconnected")
    /\ task[u][t].connected
    /\ task' = [task EXCEPT ![u][t].connected = FALSE]
    /\ UNCHANGED <<userbot_clients, userbot_start_times, file>>
    /\ TaskFrame

\* await client.run_until_disconnected() returns
run_until_disconnected(u, t) ==
    /\ Runs(u, t, "run_until_disconnected")
    /\ ~task[u][t].connected
    /\ Finally(u, t, task[u][t])
    /\ UNCHANGED file
    /\ TaskFrame

\* finally: await client.disconnect() returns, the entries are deleted
finally_disconnect(u, t) ==
    /\ Runs(u, t, "fin_disc")
    /\ Finally(u, t, [task[u][t] EXCEPT !.connected = FALSE])
    /\ UNCHANGED file
    /\ TaskFrame

\* The step of a task after Task.cancel(): CancelledError at its await.  A
\* task that never ran does not enter the coroutine; except Exception does
\* not catch it, finally runs; raised inside finally's own await it skips the
\* deletions and leaves the disconnect unfinished (the client still connected
\* or not, unless something else has disconnected it).
cancelled(u, t, still) ==
    /\ task[u][t].cancel /\ ~done(u, t)
    /\ LET tk == [task[u][t] EXCEPT !.cancel = FALSE]
       IN  CASE tk.pc = "created" ->
                  /\ still = FALSE
                  /\ task' = [task EXCEPT ![u][t] = Finished(tk)]
                  /\ UNCHANGED <<userbot_clients, userbot_start_times>>
             [] tk.pc = "fin_disc" ->
                  /\ task' = [task EXCEPT ![u][t] =
                                Finished([tk EXCEPT !.connected = (tk.connected /\ still)])]
                  /\ UNCHANGED <<userbot_clients, userbot_start_times>>
             [] OTHER ->
                  /\ still = FALSE
                  /\ Finally(u, t, tk)
    /\ UNCHANGED file
    /\ TaskFrame

----------------------------------------------------------------------------
\* The handler of an update of user u is at pc.
At(pc, u, client) == [pc |-> pc, u |-> u, client |-> client, before |-> <<0, 0, 0>>,
                      wakeup |-> FALSE, stopped |-> 0, update |-> TRUE]

\* The handler goes on to pc with what it knows of the wake-up it is part
\* of, and of whether it handles an update or is post_init.
Goto(pc, u, client) == [At(pc, u, client) EXCEPT !.wakeup = h.wakeup,
                                                 !.stopped = h.stopped,
                                                 !.update = h.update]

\* start_userbot_for_user_background returns, to handle_wakeup_userbot or to
\* handle_start_userbot or post_init, which return in turn.
Started(u) ==
    /\ h' = Idle
    /\ last' = IF h.wakeup
               THEN Done("handle_wakeup_userbot", u, 0, Ret(TRUE, "none", FALSE), FALSE)
               ELSE Done("start_userbot_for_user_background", u, 0, NoRet, FALSE)

\* A handler returns.
Return(op, u) ==
    /\ h' = Idle
    /\ last' = Done(op, u, 0, NoRet, FALSE)

HandlerFrame == UNCHANGED <<loginVars, adminVars, todo>>

\* The task objects no registry refers to any more can be reused.
FreeIds(u) == {t \in TaskIds : done(u, t) /\ userbot_clients[u] # t
                               /\ userbot_start_times[u] # t
                               /\ task[u][t].timer # "armed"}

Before(u) == <<userbot_tasks[u], userbot_clients[u], userbot_start_times[u]>>

\* userbot_tasks[user_id] = asyncio.create_task(run_userbot_for_user(user_id))
create_task(u, t, before) ==
    /\ task' = [task EXCEPT ![u][t] = [NewTask EXCEPT !.pc = "created", !.before = before]]
    /\ userbot_tasks' = [userbot_tasks EXCEPT ![u] = t]

\* post_init: one start per session file found at startup.
post_init(u) ==
    /\ h.pc = "idle"
    /\ u \in todo
    /\ todo' = todo \ {u}
    /\ h' = [At("start_background", u, 0) EXCEPT !.update = FALSE]
    /\ UNCHANGED <<loginVars, runnerVars, adminVars, file, last>>

\* main.handle_start_userbot up to the call of
\* start_userbot_for_user_background.
handle_start_userbot(u, is_subscribed) ==
    /\ Polling
    /\ IF is_subscribed /\ session_exists(file[u])
       THEN /\ h' = At("start_background", u, 0)
            /\ UNCHANGED last
       ELSE Return(IF is_subscribed THEN "handle_start_userbot"
                   ELSE "handle_start_userbot_unsubscribed", u)
    /\ UNCHANGED <<runnerVars, file>>
    /\ HandlerFrame

\* The running check with the test of done() inverted.
running_check_inverted(u) == userbot_tasks[u] # 0 /\ done(u, userbot_tasks[u])

\* A start that does not look at the task there is.
running_check_skipped(u) == FALSE

\* user_id in userbot_tasks and not userbot_tasks[user_id].done()
already_running(u) == userbot_tasks[u] # 0 /\ ~done(u, userbot_tasks[u])

\* start_userbot_for_user_background up to its first await.
start_userbot_for_user_background(u) ==
    /\ h.pc = "start_background" /\ h.u = u
    /\ IF already_running(u)
       THEN /\ Started(u)
            /\ UNCHANGED runnerVars
       ELSE IF userbot_clients[u] # 0
       THEN /\ IF task[u][userbot_clients[u]].connected
               THEN /\ h' = [Goto("start_disconnect", u, userbot_clients[u])
                                EXCEPT !.before = Before(u)]
                    /\ UNCHANGED userbot_clients
               ELSE /\ h' = [Goto("start_sleep", u, 0) EXCEPT !.before = Before(u)]
                    /\ userbot_clients' = Del(userbot_clients, u)
            /\ UNCHANGED <<task, userbot_tasks, userbot_start_times, last>>
       ELSE /\ FreeIds(u) # {}
            /\ create_task(u, CHOOSE t \in FreeIds(u) : \A x \in FreeIds(u) : t <= x,
                           Before(u))
            /\ Started(u)
            /\ UNCHANGED <<userbot_clients, userbot_start_times>>
    /\ UNCHANGED file
    /\ HandlerFrame

\* ... await client.disconnect() of the stale client returns; del
\* userbot_clients[user_id] (a KeyError is swallowed)
start_disconnect(u) ==
    /\ h.pc = "start_disconnect" /\ h.u = u
    /\ task' = [task EXCEPT ![u][h.client].connected = FALSE]
    /\ userbot_clients' = Del(userbot_clients, u)
    /\ h' = [h EXCEPT !.pc = "start_sleep", !.client = 0]
    /\ UNCHANGED <<userbot_tasks, userbot_start_times, file, last>>
    /\ HandlerFrame

\* ... await asyncio.sleep(1) returns; the new task is created
start_sleep(u) ==
    /\ h.pc = "start_sleep" /\ h.u = u
    /\ FreeIds(u) # {}
    /\ create_task(u, CHOOSE t \in FreeIds(u) : \A x \in FreeIds(u) : t <= x,
                   h.before)
    /\ Started(u)
    /\ UNCHANGED <<userbot_clients, userbot_start_times, file>>
    /\ HandlerFrame

\* main.handle_wakeup_userbot up to the cancellation of the running task.
handle_wakeup_userbot(u, is_subscribed) ==
    /\ Polling
    /\ IF is_subscribed /\ session_exists(file[u])
       THEN /\ h' = [At("wakeup", u, 0) EXCEPT !.wakeup = TRUE]
            /\ UNCHANGED last
       ELSE Return(IF is_subscribed THEN "handle_wakeup_userbot"
                   ELSE "handle_wakeup_userbot_unsubscribed", u)
    /\ UNCHANGED <<runnerVars, file>>
    /\ HandlerFrame

\* if the task is not done: cancel() and await it
wakeup_cancel(u) ==
    /\ h.pc = "wakeup" /\ h.u = u
    /\ IF userbot_tasks[u] # 0 /\ ~done(u, userbot_tasks[u])
       THEN /\ task' = [task EXCEPT ![u][userbot_tasks[u]].cancel = TRUE]
            /\ h' = [Goto("wakeup_await", u, userbot_tasks[u])
                        EXCEPT !.stopped = userbot_tasks[u]]
       ELSE /\ h' = Goto("start_background", u, 0)
            /\ UNCHANGED task
    /\ UNCHANGED <<userbot_tasks, userbot_clients, userbot_start_times, file, last>>
    /\ HandlerFrame

\* await userbot_tasks[user_id] returns once the task is done; sleep(1);
\* start_userbot_for_user_background
wakeup_await(u) ==
    /\ h.pc = "wakeup_await" /\ h.u = u
    /\ done(u, h.client)
    /\ h' = Goto("start_background", u, 0)
    /\ UNCHANGED <<runnerVars, file, last>>
    /\ HandlerFrame

\* main.handle_check_status: reports whether the session file exists and the
\* task is running; it changes nothing.
handle_check_status(u, is_subscribed) ==
    /\ Polling
    /\ h' = Idle
    /\ last' = Done("handle_check_status", u, 0,
                    Ret(is_subscribed /\ session_exists(file[u]), "none",
                        is_subscribed /\ already_running(u)), FALSE)
    /\ UNCHANGED <<runnerVars, file>>
    /\ HandlerFrame

\* The rest of handle_logout after the client entry is dealt with, up to
\* await asyncio.sleep(1): cancel the task.
LogoutCancel(u, tk) ==
    IF userbot_tasks[u] # 0
    THEN /\ task' = [tk EXCEPT ![u][userbot_tasks[u]].cancel = ~done(u, userbot_tasks[u])]
         /\ h' = At("logout_sleep", u, userbot_tasks[u])
    ELSE /\ task' = tk
         /\ h' = At("logout_remove", u, 0)

\* main.handle_logout up to its first await on the runner's state.
handle_logout(u, is_subscribed) ==
    /\ Polling
    /\ IF ~is_subscribed
       THEN /\ Return("handle_logout_unsubscribed", u)
            /\ UNCHANGED runnerVars
       ELSE /\ IF userbot_clients[u] # 0
               THEN IF task[u][userbot_clients[u]].connected
                    THEN /\ h' = At("logout_disconnect", u, userbot_clients[u])
                         /\ UNCHANGED <<task, userbot_clients>>
                    ELSE /\ userbot_clients' = Del(userbot_clients, u)
                         /\ LogoutCancel(u, task)
               ELSE /\ UNCHANGED userbot_clients
                    /\ LogoutCancel(u, task)
            /\ UNCHANGED <<userbot_tasks, userbot_start_times, last>>
    /\ UNCHANGED file
    /\ HandlerFrame

\* ... await client.disconnect() returns; del userbot_clients[user_id] (a
\* KeyError is swallowed); cancel the task
logout_disconnect(u) ==
    /\ h.pc = "logout_disconnect" /\ h.u = u
    /\ userbot_clients' = Del(userbot_clients, u)
    /\ LogoutCancel(u, [task EXCEPT ![u][h.client].connected = FALSE])
    /\ UNCHANGED <<userbot_tasks, userbot_start_times, file, last>>
    /\ HandlerFrame

\* ... await asyncio.sleep(1) returns, after the cancelled task has taken its
\* step (the event loop runs ready callbacks in order); del userbot_tasks
logout_sleep(u) ==
    /\ h.pc = "logout_sleep" /\ h.u = u
    /\ ~task[u][h.client].cancel
    /\ userbot_tasks' = Del(userbot_tasks, u)
    /\ h' = At("logout_remove", u, 0)
    /\ UNCHANGED <<task, userbot_clients, userbot_start_times, file, last>>
    /\ HandlerFrame

\* The end of handle_logout without os.remove(session_path).
logout_remove_keeping_file(u) ==
    /\ h.pc = "logout_remove" /\ h.u = u
    /\ Return("handle_logout", u)
    /\ UNCHANGED <<runnerVars, file>>
    /\ HandlerFrame

\* ... await asyncio.sleep(1) returns; os.remove(session_path) if it exists
logout_remove(u) ==
    /\ h.pc = "logout_remove" /\ h.u = u
    /\ file' = [file EXCEPT ![u] = "none"]
    /\ Return("handle_logout", u)
    /\ UNCHANGED runnerVars
    /\ HandlerFrame

----------------------------------------------------------------------------
\* A REQUIRED_CHANNEL entry, of the .env file or of os.environ: absent, or
\* present with the comma-separated channels as its value.
NoLine == [present |-> FALSE, value |-> <<>>]
Line(channels) == [present |-> TRUE, value |-> channels]

\* The attribute REQUIRED_CHANNEL of the instance config: not set (the class
\* attribute shows through), None, or a string of comma-separated channels.
Unset == [kind |-> "unset", value |-> <<>>]
None == [kind |-> "None", value |-> <<>>]
Str(channels) == [kind |-> "str", value |-> channels]

\* os.getenv("REQUIRED_CHANNEL", "")
getenv(e) == IF e.environ.present THEN e.environ.value ELSE <<>>

\* The class Config after its body has run with AUTO_SLEEP_HOURS read as
\* hours and the environment e; REQUIRED_CHANNEL is the class attribute,
\* instance the attribute of the same name set on the instance config.
ConfigIn(hours, e) == [AUTO_SLEEP_HOURS |-> hours, REQUIRED_CHANNEL |-> getenv(e),
                       instance |-> Unset]

\* The REQUIRED_CHANNEL line of .env and the REQUIRED_CHANNEL entry of
\* os.environ, neither present.
NoEnv == [file |-> NoLine, environ |-> NoLine]

\* The settings of a deployment without required channels.
ConfigOf(hours) == ConfigIn(hours, NoEnv)

\* The program after start-up with AUTO_SLEEP_HOURS = hours and the
\* REQUIRED_CHANNEL line of .env being line: load_dotenv() at the import of
\* config has copied the line into os.environ.
InitOf(hours, line) ==
    /\ conv = [u \in Users |-> [c \in Chats |-> NO_CONVERSATION]]
    /\ session_creators = {}
    /\ sc = [u \in Users |-> NewSessionCreator]
    /\ net = [u \in Users |-> [token |-> 0, password |-> FALSE]]
    /\ file \in [Users -> FileStates]
    /\ task = [u \in Users |-> [t \in TaskIds |-> NewTask]]
    /\ userbot_tasks = [u \in Users |-> 0]
    /\ userbot_clients = [u \in Users |-> 0]
    /\ userbot_start_times = [u \in Users |-> 0]
    /\ h = Idle
    /\ todo = {u \in Users : session_exists(file[u])}
    /\ last = Done("init", 0, 0, NoRet, FALSE)
    /\ env = [file |-> line, environ |-> line]
    /\ view = [page |-> 0, buttons |-> <<>>]
    /\ config = ConfigIn(hours, env)

\* The program after start-up with AUTO_SLEEP_HOURS = hours and no
\* REQUIRED_CHANNEL line in .env.
InitWith(hours) == InitOf(hours, NoLine)

\* AUTO_SLEEP_HOURS=0: no auto-sleep timer.
Init == InitWith(0)

\* The answers of the network and the inputs of the users.
AllInputs == [subscribed |-> BOOLEAN,
              start |-> {"sent", "connect_error", "phone_invalid", "phone_banned",
                         "flood", "error"},
              codes |-> CodeInputs,
              sign_in |-> SignInAnswers,
              resend |-> ResendAnswers,
              password |-> PasswordAnswers,
              user_info |-> UserInfoAnswers,
              disconnect |-> DisconnectAnswers]

\* The updates of the login conversation the users of U send in the chats
\* of C, with inputs and answers drawn from I.
LoginNext(U, C, I) ==
    \E u \in U : \E c \in ChatsOf(u) \cap C :
        \/ \E b \in I.subscribed : connect_callback(u, c, b)
        \/ \E o \in I.start : phone_received(u, c, o)
        \/ \E code \in I.codes, o \in I.sign_in, r \in I.resend, g \in I.user_info,
              d \in I.disconnect : code_received(u, c, code, o, r, g, d)
        \/ \E o \in I.password, g \in I.user_info, d \in I.disconnect :
                password_received(u, c, o, g, d)
        \/ \E d \in I.disconnect : cancel_callback(u, c, d)
        \/ cancel_message(u, c)

\* The steps of the background tasks of the users of U.
TaskNext(U) ==
    \E u \in U, t \in TaskIds :
        \/ run_userbot_for_user(u, t)
        \/ \E o \in {"ok", "error"} : client_connect(u, t, o)
        \/ \E o \in {"yes", "no", "error"} : is_user_authorized(u, t, o)
        \/ unauthorized_branch(u, t)
        \/ \E o \in {"ok", "error"} : get_me(u, t, o)
        \/ connection_lost(u, t)
        \/ run_until_disconnected(u, t)
        \/ finally_disconnect(u, t)
        \/ \E still \in BOOLEAN : cancelled(u, t, still)

\* The Background Runner updates of the users of U and the handlers' steps.
RunnerNext(U) ==
    \E u \in U :
        \/ post_init(u)
        \/ \E b \in BOOLEAN : handle_start_userbot(u, b)
        \/ start_userbot_for_user_background(u)
        \/ start_disconnect(u)
        \/ start_sleep(u)
        \/ \E b \in BOOLEAN : handle_wakeup_userbot(u, b)
        \/ wakeup_cancel(u)
        \/ wakeup_await(u)
        \/ \E b \in BOOLEAN : handle_check_status(u, b)
        \/ \E b \in BOOLEAN : handle_logout(u, b)
        \/ logout_disconnect(u)
        \/ logout_sleep(u)
        \/ logout_remove(u)

Next == LoginNext(Users, Chats, AllInputs) \/ RunnerNext(Users) \/ TaskNext(Users)

Spec == Init /\ [][Next]_vars

\* The login conversations of user 1 (two chats), started with no session
\* file on disk.
InitLogin == Init /\ todo = {}
NextLogin == LoginNext({1}, Chats, AllInputs)
SpecLogin == InitLogin /\ [][NextLogin]_vars

\* The Background Runner of user 1, with the logins of user 1 in one chat
\* that write the session file: code sent or not, code accepted, with or
\* without a password.
RunnerInputs == [subscribed |-> BOOLEAN,
                 start |-> {"sent", "error"},
                 codes |-> {<<"1">>, <<"2">>},
                 sign_in |-> {"signed_in", "need_2fa"},
                 resend |-> {"fail"},
                 password |-> {"signed_in"},
                 user_info |-> {"info"},
                 disconnect |-> {"ok"}]

InitRunner == Init /\ file[2] = "none"
NextRunner == LoginNext({1}, {1}, RunnerInputs) \/ RunnerNext({1}) \/ TaskNext({1})
SpecRunner == InitRunner /\ [][NextRunner]_vars

----------------------------------------------------------------------------
\* Two users side by side, each with one chat: the logins that write the
\* session file or are cancelled, and the Background Runner with a network
\* that answers (a run ends by losing its connection or by cancellation).
PairInputs == [subscribed |-> {TRUE},
               start |-> {"sent", "error"},
               codes |-> {<<"1">>},
               sign_in |-> {"signed_in", "need_2fa"},
               resend |-> {"fail"},
               password |-> {"signed_in"},
               user_info |-> {"info"},
               disconnect |-> {"ok"}]

\* The steps of the background tasks of the users of U with the network
\* answering.
PairTaskNext(U) ==
    \E u \in U, t \in TaskIds :
        \/ run_userbot_for_user(u, t)
        \/ client_connect(u, t, "ok")
        \/ \E o \in {"yes", "no"} : is_user_authorized(u, t, o)
        \/ unauthorized_branch(u, t)
        \/ get_me(u, t, "ok")
        \/ connection_lost(u, t)
        \/ run_until_disconnected(u, t)
        \/ finally_disconnect(u, t)
        \/ \E still \in BOOLEAN : cancelled(u, t, still)

\* The Background Runner handlers of the users of U; with the network
\* answering no run leaves a stale client behind, and the start has no stale
\* client to disconnect.
PairRunnerNext(U) ==
    \E u \in U :
        \/ post_init(u)
        \/ handle_start_userbot(u, TRUE)
        \/ start_userbot_for_user_background(u)
        \/ handle_wakeup_userbot(u, TRUE)
        \/ wakeup_cancel(u)
        \/ wakeup_await(u)
        \/ handle_check_status(u, TRUE)
        \/ handle_logout(u, TRUE)
        \/ logout_disconnect(u)
        \/ logout_sleep(u)
        \/ logout_remove(u)

\* User 2 logs in and starts the Background Runner.
OtherNext ==
    \/ connect_callback(2, 1, TRUE)
    \/ phone_received(2, 1, "sent")
    \/ code_received(2, 1, <<"1">>, "signed_in", "fail", "info", "ok")
    \/ handle_start_userbot(2, TRUE)
    \/ start_userbot_for_user_background(2)
    \/ run_userbot_for_user(2, 1)
    \/ client_connect(2, 1, "ok")
    \/ is_user_authorized(2, 1, "yes")
    \/ get_me(2, 1, "ok")

\* User 1 has the session file of an earlier login when the program starts.
InitPair == Init /\ file[1] = "auth" /\ file[2] = "none"
NextPair ==
    \/ LoginNext({1}, {1}, PairInputs)
    \/ PairRunnerNext({1})
    \/ PairTaskNext({1})
    \/ OtherNext
SpecPair == InitPair /\ [][NextPair]_vars

----------------------------------------------------------------------------
\* The Background Runner of user 1 with its auto-sleep timers, for
\* AUTO_SLEEP_HOURS = 0 and for the default of 24, started from the session
\* file of an earlier login.
SleepNext == \E t \in TaskIds : auto_sleep_timer(1, t)

InitSleep ==
    /\ \E hours \in {0, 24} : InitWith(hours)
    /\ file[1] = "auth" /\ file[2] = "none"
NextSleep == PairRunnerNext({1}) \/ PairTaskNext({1}) \/ SleepNext

\* The event loop runs every task that is ready: a sleep that has elapsed, a
\* disconnect that has returned, a cancellation that is pending.
SleepFairness ==
    \A t \in TaskIds :
        /\ WF_vars(auto_sleep_timer(1, t))
        /\ WF_vars(run_until_disconnected(1, t))
        /\ WF_vars(finally_disconnect(1, t))
        /\ WF_vars(\E still \in BOOLEAN : cancelled(1, t, still))

SpecSleep == InitSleep /\ [][NextSleep]_vars /\ SleepFairness

----------------------------------------------------------------------------
\* The required channels and the admin panel (config.py, admin_commands.py).
\* A channel is its prefix ("@", "-100" or none) and the rest of its name; a
\* text or command argument is its form and the name it carries:
\*   username      @name               link          https://t.me/name
\*   id            -100name            private_link  https://t.me/c/name/1
\*   bare          name                dot_command   .name

\* config.OWNER_ID
OWNER_ID == 1

Channel(prefix, name) == [prefix |-> prefix, name |-> name]
Text(form, name) == [form |-> form, name |-> name]

\* The owner check at the head of every admin handler, passing every user.
is_owner_anyone(u) == TRUE

\* not (user_id != config.OWNER_ID)
is_owner(u) == u = OWNER_ID

\* admin_commands.parse_channel_id
parse_channel_id(text) ==
    CASE text.form = "private_link" -> Channel("-100", text.name)
      [] text.form = "link" -> Channel("@", text.name)
      [] text.form = "id" -> Channel("-100", text.name)
      [] text.form = "username" -> Channel("@", text.name)
      [] OTHER -> Channel("@", text.name)

\* The channel cmd_set_channel makes of its first argument: links are
\* parsed, anything else is taken as typed.
set_channel_id(text) ==
    CASE text.form = "private_link" -> Channel("-100", text.name)
      [] text.form = "link" -> Channel("@", text.name)
      [] text.form = "id" -> Channel("-100", text.name)
      [] text.form = "username" -> Channel("@", text.name)
      [] text.form = "dot_command" -> Channel(".", text.name)
      [] OTHER -> Channel("", text.name)

\* The formats handle_add_channel_message accepts.
valid_channel_format(text) == text.form \in {"username", "link", "private_link", "id"}

\* list.pop(index), index counted from 0.
pop(channels, index) ==
    [j \in 1..(Len(channels) - 1) |-> IF j <= index THEN channels[j] ELSE channels[j + 1]]

\* The position of the first occurrence of channel in channels.
index_of(channels, channel) ==
    CHOOSE i \in 1..Len(channels) :
        channels[i] = channel /\ \A j \in 1..(i - 1) : channels[j] # channel

\* list.remove(channel), channel being in the list.
remove(channels, channel) == pop(channels, index_of(channels, channel) - 1)

\* The settings a handler works on: the class Config with its instance, and
\* the .env file with os.environ.
Settings == [config |-> config, env |-> env]

\* load_dotenv(override=True): an entry of the file replaces that of
\* os.environ; an entry missing from the file leaves os.environ alone.
load_dotenv(e) == IF e.file.present THEN [e EXCEPT !.environ = e.file] ELSE e

\* Config.reload_channels
reload_channels(r) ==
    [config |-> [r.config EXCEPT !.REQUIRED_CHANNEL = getenv(load_dotenv(r.env))],
     env |-> load_dotenv(r.env)]

\* Config.get_required_channels: the settings it leaves and the list it
\* returns, made of the class attribute.
get_required_channels(r) ==
    [after |-> reload_channels(r),
     channels |-> reload_channels(r).config.REQUIRED_CHANNEL]

\* config.REQUIRED_CHANNEL as the handlers read it: the attribute of the
\* instance when one has been set ("" for both None and the empty string).
REQUIRED_CHANNEL(cf) ==
    IF cf.instance.kind = "unset" THEN cf.REQUIRED_CHANNEL ELSE cf.instance.value

\* The .env file rewritten without its REQUIRED_CHANNEL line, or with the
\* line REQUIRED_CHANNEL=channels.
remove_line(r) == [r EXCEPT !.env.file = NoLine]
set_line(r, channels) == [r EXCEPT !.env.file = Line(channels)]
write_line(r, channels) == IF channels # <<>> THEN set_line(r, channels) ELSE remove_line(r)

\* config.REQUIRED_CHANNEL = value
set_attribute(r, value) == [r EXCEPT !.config.instance = value]

AdminFrame == UNCHANGED <<loginVars, runnerVars, file, h, todo>>

\* An admin handler called by user u, on the press of button when it is
\* handle_channel_remove, has run to its end, left the settings r and the
\* channel management view v; message tells which of its returns it took.
AdminDo(op, u, r, message, v, button) ==
    /\ Polling
    /\ config' = r.config
    /\ env' = r.env
    /\ view' = v
    /\ last' = [Done(op, u, 0, Ret(message \notin {"denied", "ignored"}, message, FALSE),
                     FALSE) EXCEPT !.button = button]
    /\ AdminFrame

\* An admin handler that shows no channel management view.
AdminStep(op, u, r, message) == AdminDo(op, u, r, message, view, NoButton)

\* per_page of handle_admin_channels_manage
per_page == 10

\* The remove buttons of page page of channels: one for each i in
\* range(start_idx, end_idx), with callback data remove_channel_<i>.
manage_buttons(channels, page) ==
    LET start_idx == page * per_page
        end_idx == IF start_idx + per_page < Len(channels) THEN start_idx + per_page
                   ELSE Len(channels)
    IN  [j \in 1..(end_idx - start_idx) |->
            Button(start_idx + j - 1, channels[start_idx + j])]

\* The body of handle_admin_channels_manage after its owner check, for the
\* page number at the end of the callback data: the settings it leaves and
\* the view it shows.
channels_manage(r, page) ==
    [after |-> get_required_channels(r).after,
     view |-> [page |-> page,
               buttons |-> manage_buttons(get_required_channels(r).channels, page)]]

\* admin_commands.get_admin_keyboard
get_admin_keyboard(r) == get_required_channels(r).after

\* /admin
cmd_admin_panel(u) ==
    AdminStep("cmd_admin_panel", u,
              IF is_owner(u) THEN get_admin_keyboard(reload_channels(Settings)) ELSE Settings,
              IF is_owner(u) THEN "shown" ELSE "denied")

\* /setchannel with the arguments args
cmd_set_channel(u, args) ==
    IF ~is_owner(u)
    THEN AdminStep("cmd_set_channel", u, Settings, "denied")
    ELSE IF args = <<>>
    THEN AdminStep("cmd_set_channel", u, Settings, "usage")
    ELSE LET channels == <<set_channel_id(args[1])>>
         IN  AdminStep("cmd_set_channel", u,
                       set_attribute(set_line(Settings, channels), Str(channels)), "set")

\* /removechannel
cmd_remove_channel(u) ==
    AdminStep("cmd_remove_channel", u,
              IF is_owner(u) THEN set_attribute(remove_line(Settings), None) ELSE Settings,
              IF is_owner(u) THEN "removed" ELSE "denied")

\* /config and the callbacks admin_config, admin_set_channel and
\* admin_add_channel_info: they read the settings and show a text.
cmd_check_config(u) ==
    AdminStep("cmd_check_config", u, Settings, IF is_owner(u) THEN "shown" ELSE "denied")

handle_admin_config(u) ==
    AdminStep("handle_admin_config", u, Settings, IF is_owner(u) THEN "shown" ELSE "denied")

handle_admin_set_channel(u) ==
    AdminStep("handle_admin_set_channel", u, Settings,
              IF is_owner(u) THEN "shown" ELSE "denied")

handle_admin_add_channel_info(u) ==
    AdminStep("handle_admin_add_channel_info", u, Settings,
              IF is_owner(u) THEN "shown" ELSE "denied")

\* The callbacks admin_channels_view, admin_channels_manage,
\* admin_remove_channel_info and admin_refresh: they show the list
\* get_required_channels returns, or a keyboard that counts it.
handle_admin_channels_view(u) ==
    AdminStep("handle_admin_channels_view", u,
              IF is_owner(u) THEN get_required_channels(reload_channels(Settings)).after
              ELSE Settings,
              IF is_owner(u) THEN "shown" ELSE "denied")

handle_admin_channels_manage(u, page) ==
    IF is_owner(u)
    THEN AdminDo("handle_admin_channels_manage", u, channels_manage(Settings, page).after,
                 "shown", channels_manage(Settings, page).view, NoButton)
    ELSE AdminStep("handle_admin_channels_manage", u, Settings, "denied")

handle_admin_remove_channel_info(u) ==
    AdminStep("handle_admin_remove_channel_info", u,
              IF is_owner(u) THEN get_required_channels(Settings).after ELSE Settings,
              IF is_owner(u) THEN "shown" ELSE "denied")

handle_admin_refresh(u) ==
    AdminStep("handle_admin_refresh", u,
              IF is_owner(u) THEN get_admin_keyboard(Settings) ELSE Settings,
              IF is_owner(u) THEN "shown" ELSE "denied")

\* The callback admin_remove_channel
handle_admin_remove_channel(u) ==
    IF ~is_owner(u)
    THEN AdminStep("handle_admin_remove_channel", u, Settings, "denied")
    ELSE IF REQUIRED_CHANNEL(config) = <<>>
    THEN AdminStep("handle_admin_remove_channel", u, Settings, "not_set")
    ELSE AdminStep("handle_admin_remove_channel", u,
                   get_admin_keyboard(set_attribute(remove_line(Settings), None)),
                   "removed")

\* The page handle_admin_channels_manage reads from the callback data when
\* handle_channel_remove calls it with the update of remove_channel_<index>:
\* int(callback_data.split("_")[-1]).
page_of_remove(index) == index

\* The callback remove_channel_<index> of a remove button; it ends in
\* handle_admin_channels_manage, called with the same update.
handle_channel_remove(u, button) ==
    IF ~is_owner(u)
    THEN AdminDo("handle_channel_remove", u, Settings, "denied", view, button)
    ELSE LET index == button.index
             got == get_required_channels(Settings)
             channels == pop(got.channels, index)
             written == set_attribute(write_line(got.after, channels), Str(channels))
             shown == channels_manage(written, page_of_remove(index))
         IN  IF index >= Len(got.channels)
             THEN AdminDo("handle_channel_remove", u, got.after, "not_found", view, button)
             ELSE AdminDo("handle_channel_remove", u, shown.after, "removed",
                          shown.view, button)

\* channel in channels
In(channel, channels) == \E i \in 1..Len(channels) : channels[i] = channel

\* The body of handle_add_channel_message for a text of a valid format, on
\* the settings r: whether it removes, and the settings it leaves.
add_channel_message(r, text) ==
    LET channel_id == parse_channel_id(text)
        got == get_required_channels(r)
        is_removing == In(channel_id, got.channels)
        channels == IF is_removing THEN remove(got.channels, channel_id)
                    ELSE Append(got.channels, channel_id)
    IN  [is_removing |-> is_removing,
         after |-> set_attribute(write_line(got.after, channels), Str(channels))]

\* A text message that is no command, sent by user u in chat c: the login
\* conversation takes it when one is open in the chat, else the filter
\* filters.User(OWNER_ID) lets handle_add_channel_message have the owner's,
\* and the handler looks at the sender once more.
handle_add_channel_message(u, c, text) ==
    /\ conv[u][c] \notin ActiveStates
    /\ IF ~is_owner(u)
       THEN AdminStep("handle_add_channel_message", u, Settings, "denied")
       ELSE IF text.form = "dot_command" \/ ~valid_channel_format(text)
       THEN AdminStep("handle_add_channel_message", u, Settings, "ignored")
       ELSE AdminStep("handle_add_channel_message", u,
                      add_channel_message(Settings, text).after,
                      IF add_channel_message(Settings, text).is_removing
                      THEN "removed" ELSE "added")

\* The statuses get_chat_member reports and the errors it raises.
MemberStatuses == {"member", "administrator", "creator"}
OtherStatuses == {"left", "kicked", "restricted"}
BotErrors == {"chat_not_found", "not_enough_rights"}
Answers == MemberStatuses \cup OtherStatuses \cup BotErrors \cup {"other_error"}

\* The bot_errors list of check_subscription left empty.
bot_errors_none(channels, answers) == <<>>

\* The channels whose get_chat_member raised an error that names the bot's
\* own standing in the channel.
bot_errors(channels, answers) ==
    LET failed(i) == answers[i] \in BotErrors
    IN  [j \in 1..Cardinality({i \in 1..Len(channels) : failed(i)}) |->
            channels[CHOOSE i \in 1..Len(channels) :
                        /\ failed(i)
                        /\ Cardinality({k \in 1..i : failed(k)}) = j]]

\* The channels get_chat_member answered with another status than member,
\* administrator or creator.
missing_channels(channels, answers) ==
    LET missing(i) == answers[i] \in OtherStatuses
    IN  [j \in 1..Cardinality({i \in 1..Len(channels) : missing(i)}) |->
            channels[CHOOSE i \in 1..Len(channels) :
                        /\ missing(i)
                        /\ Cardinality({k \in 1..i : missing(k)}) = j]]

\* handlers.check_subscription on the channels get_required_channels
\* returned, answers[i] being what get_chat_member gave for channels[i].
check_subscription(channels, answers) ==
    IF channels = <<>>
    THEN [is_subscribed |-> TRUE, missing |-> <<>>]
    ELSE IF bot_errors(channels, answers) # <<>>
    THEN [is_subscribed |-> TRUE, missing |-> <<>>]
    ELSE IF missing_channels(channels, answers) # <<>>
    THEN [is_subscribed |-> FALSE, missing |-> missing_channels(channels, answers)]
    ELSE [is_subscribed |-> TRUE, missing |-> <<>>]

\* main.handle_check_subscription, the callback check_subscription: any
\* user; answers is what get_chat_member gives for each channel asked about.
handle_check_subscription(u, answers) ==
    LET got == get_required_channels(reload_channels(Settings))
        res == check_subscription(got.channels, answers)
    IN  /\ Polling
        /\ Len(answers) = Len(got.channels)
        /\ config' = got.after.config
        /\ env' = got.after.env
        /\ view' = view
        /\ last' = [Done("handle_check_subscription", u, 0,
                         Ret(res.is_subscribed, "none", FALSE), FALSE)
                      EXCEPT !.check = [channels |-> got.channels, answers |-> answers,
                                        missing |-> res.missing]]
        /\ AdminFrame

\* The texts and arguments the users send, and the answers get_chat_member
\* gives, in the admin panel's specification.
AdminTexts == {Text("username", "a"), Text("link", "a"), Text("username", "b"),
               Text("bare", "a"), Text("dot_command", "a")}
AdminArgs == {<<>>} \cup {<<text>> : text \in {t \in AdminTexts : valid_channel_format(t)}}
AdminAnswers == {"member", "left", "chat_not_found", "other_error"}
MaxChannels == 2    \* channels in the list of the deployment at most
AnswerLists == UNION {[1..n -> AdminAnswers] : n \in 0..MaxChannels}

\* The pages the navigation buttons of the management view ask for.
ManagePages == {0, 1}

AdminNext ==
    \E u \in Users :
        \/ cmd_admin_panel(u)
        \/ \E args \in AdminArgs : cmd_set_channel(u, args)
        \/ cmd_remove_channel(u)
        \/ cmd_check_config(u)
        \/ handle_admin_config(u)
        \/ handle_admin_set_channel(u)
        \/ handle_admin_add_channel_info(u)
        \/ handle_admin_channels_view(u)
        \/ \E page \in ManagePages : handle_admin_channels_manage(u, page)
        \/ handle_admin_remove_channel_info(u)
        \/ handle_admin_refresh(u)
        \/ handle_admin_remove_channel(u)
        \/ \E b \in 1..Len(view.buttons) : handle_channel_remove(u, view.buttons[b])
        \/ \E text \in AdminTexts : handle_add_channel_message(u, 1, text)
        \/ \E answers \in AnswerLists : handle_check_subscription(u, answers)

\* The program started with no session file, the .env file without a
\* REQUIRED_CHANNEL line or with one channel in it; load_dotenv() at the
\* import of config has copied the line into os.environ.
InitAdmin ==
    /\ \E line \in {NoLine, Line(<<Channel("@", "a")>>)} : InitOf(0, line)
    /\ file = [u \in Users |-> "none"]
NextAdmin == AdminNext
SpecAdmin == InitAdmin /\ [][NextAdmin]_vars

----------------------------------------------------------------------------
\* The public operations of one SessionCreator object (that of user 1)
\* called directly, in any order, each call recorded in last.
ManagerFrame == UNCHANGED <<conv, session_creators, runnerVars, adminVars, h, todo>>

Manager(s, n, f, rec) ==
    /\ sc' = [sc EXCEPT ![1] = s]
    /\ net' = [net EXCEPT ![1] = n]
    /\ file' = [file EXCEPT ![1] = f]
    /\ last' = rec
    /\ ManagerFrame

call_start_login(o) ==
    /\ o \in StartLoginOutcomes(net[1])
    /\ LET res == start_login(sc[1], net[1], file[1], o)
       IN  Manager(res.sc, res.net, res.file,
                   [Done("start_login", 1, 0, res.ret, FALSE)
                        EXCEPT !.call.steps = res.steps])

call_verify_code(code, o, r) ==
    /\ o \in SignInOutcomes(sc[1], net[1], FilterDigits(code))
    /\ r \in (IF o \in {"invalid", "expired"} THEN ResendOutcomes(net[1]) ELSE {"fail"})
    /\ LET res == verify_code(sc[1], net[1], file[1], code, o, r)
       IN  Manager(res.sc, res.net, res.file,
                   Called(Done("verify_code", 1, 0, res.ret, FALSE), code, res))

call_verify_2fa(o) ==
    /\ o \in PasswordOutcomes(sc[1], net[1])
    /\ LET res == verify_2fa(sc[1], net[1], file[1], o)
       IN  Manager(res.sc, res.net, res.file, Done("verify_2fa", 1, 0, res.ret, FALSE))

call_get_user_info(g) ==
    Manager(sc[1], net[1], file[1],
            Done("get_user_info", 1, 0, Ret(get_user_info(sc[1], g), "none", FALSE), FALSE))

call_disconnect(d) ==
    LET res == disconnect(sc[1], d)
    IN  Manager(res.sc, net[1], file[1],
                IF res.raised THEN Escaped("disconnect", 1, 0, NoRet)
                ELSE Done("disconnect", 1, 0, NoRet, FALSE))

call_delete_session ==
    Manager(sc[1], net[1], delete_session(file[1]),
            Done("delete_session", 1, 0, Ret(TRUE, "none", FALSE), FALSE))

call_session_exists ==
    Manager(sc[1], net[1], file[1],
            Done("session_exists", 1, 0, Ret(session_exists(file[1]), "none", FALSE), FALSE))

InitManager == Init /\ file[2] = "none"
NextManager ==
    \/ \E o \in AllInputs.start : call_start_login(o)
    \/ \E code \in CodeInputs, o \in SignInAnswers, r \in ResendAnswers :
            call_verify_code(code, o, r)
    \/ \E o \in PasswordAnswers : call_verify_2fa(o)
    \/ \E g \in UserInfoAnswers : call_get_user_info(g)
    \/ \E d \in DisconnectAnswers : call_disconnect(d)
    \/ call_delete_session
    \/ call_session_exists
SpecManager == InitManager /\ [][NextManager]_vars

----------------------------------------------------------------------------
\* Properties of the login conversation, checked under SpecLogin.  Every
\* step of SpecLogin is a login handler, and last' is that handler's record.

\* The handler step being taken is op on the conversation of (u, c).
StepOf(ops, u, c) == last'.op \in ops /\ last'.u = u /\ last'.c = c

\* C1: an active login conversation only stays where it is, advances in the
\* order WAITING_PHONE -> WAITING_CODE -> WAITING_2FA, or terminates; it
\* never moves backward and WAITING_2FA is entered only from WAITING_CODE.
C1_ForwardOnly ==
    [][\A u \in Users : \A c \in ChatsOf(u) :
         /\ conv[u][c] = WAITING_PHONE
                => conv'[u][c] \in {WAITING_PHONE, WAITING_CODE, END}
         /\ conv[u][c] = WAITING_CODE
                => conv'[u][c] \in {WAITING_CODE, WAITING_2FA, END}
         /\ conv[u][c] = WAITING_2FA
                => conv'[u][c] \in {WAITING_2FA, END}
         /\ conv'[u][c] = WAITING_2FA
                => conv[u][c] \in {WAITING_CODE, WAITING_2FA}]_vars

\* C1 witness: a conversation that went through the code into WAITING_2FA
\* and was ended there by an accepted password.
C1_Witness ==
    /\ last.op = "password_received" /\ last.ret.success /\ ~last.raised
    /\ conv[last.u][last.c] = END

\* C2: once code_received or password_received has finished after a
\* successful verify_code or verify_2fa (no password needed any more), the
\* session file of the user exists and the conversation has ended (END).
C2_SuccessTerminates ==
    (last.op \in {"code_received", "password_received"}
        /\ last.ret.success /\ ~last.ret.needs_2fa)
        => /\ session_exists(file[last.u])
           /\ conv[last.u][last.c] = END

\* C3: in every active state each cancel fallback (the cancel button and the
\* /cancel command) disconnects the SessionCreator, removes the registry
\* entry, ends the conversation and leaves the session file as it is.
C3_CancelCleansUp ==
    [][\A u \in Users : \A c \in ChatsOf(u) :
         (conv[u][c] \in ActiveStates
             /\ StepOf({"cancel_callback", "cancel_message"}, u, c))
         => /\ conv'[u][c] = END
            /\ u \notin session_creators'
            /\ sc'[u] = NewSessionCreator
            /\ file'[u] = file[u]]_vars

\* C4: when the code has expired and the automatic resend fails as well,
\* code_received disconnects the SessionCreator, removes the registry entry
\* and ends the conversation.
C4_ExpiredUnrecoverable ==
    (last.op = "code_received" /\ last.ret.message = "expired_no_resend")
        => /\ conv[last.u][last.c] = END
           /\ last.u \notin session_creators
           /\ sc[last.u] = NewSessionCreator

\* C5: when the code is rejected as invalid or expired and the resend
\* succeeds, verify_code returns (False, message, False), the held
\* phone_code_hash becomes the newly issued one with the phone number kept,
\* the conversation stays in WAITING_CODE with the SessionCreator registered
\* and connected, and the code of the new token is one sign_in accepts.
C5_ResendRenewsToken ==
    [][\A u \in Users : \A c \in ChatsOf(u) :
         (StepOf({"code_received"}, u, c)
             /\ last'.ret.message \in {"invalid_resent", "expired_resent"})
         => /\ ~last'.ret.success /\ ~last'.ret.needs_2fa
            /\ net'[u].token = net[u].token + 1
            /\ sc'[u].phone_code_hash = net'[u].token
            /\ sc'[u].phone_code_hash # SessionCreatorOf(u).phone_code_hash
            /\ sc'[u].phone_number
            /\ conv'[u][c] = WAITING_CODE
            /\ u \in session_creators'
            /\ sc'[u].client = "connected"
            /\ "signed_in" \in SignInOutcomes(sc'[u], net'[u],
                                              CodeOfToken(net'[u].token))
            /\ verify_code(sc'[u], net'[u], file'[u], CodeOfToken(net'[u].token),
                           "signed_in", "fail").ret = Ret(TRUE, "signed_in", FALSE)]_vars

\* C5 witness: a code was just rejected and a new one sent.
C5_Witness ==
    /\ last.op = "code_received"
    /\ last.ret.message \in {"invalid_resent", "expired_resent"}
    /\ conv[last.u][last.c] = WAITING_CODE
    /\ sc[last.u].phone_code_hash = 2

\* C10: every step that takes an active login conversation to END (terminated)
\* leaves no entry of its user in session_creators.
C10_TerminatedUnregistered ==
    [][\A u \in Users : \A c \in ChatsOf(u) :
         (conv[u][c] \in ActiveStates /\ conv'[u][c] = END)
         => u \notin session_creators']_vars

\* C10 witness: a conversation ended by a start_login failure.
C10_Witness ==
    /\ last.op = "phone_received" /\ ~last.ret.success
    /\ conv[last.u][last.c] = END
    /\ last.u \notin session_creators

----------------------------------------------------------------------------
\* Properties of the Background Runner, checked under SpecRunner.

\* The clients of user u that are connected.
Connected(u) == {t \in TaskIds : task[u][t].connected}

C7_NoFileNoChange ==
    [][\A u \in Users : \A t \in TaskIds :
         (Runs(u, t, "created") /\ ~session_exists(file[u])
             /\ task'[u][t].pc # "created")
         => <<userbot_tasks'[u], userbot_clients'[u], userbot_start_times'[u]>>
                = task[u][t].before]_vars

\* C7 as amended: when the created task finds no session file it finishes at
\* once, the client map and the start-time map are as they were when the
\* start was called, no task of the user is left unfinished, and the task map
\* holds the finished task.
C7_NoFileNoRun ==
    [][\A u \in Users : \A t \in TaskIds :
         (Runs(u, t, "created") /\ ~session_exists(file[u])
             /\ task'[u][t].pc # "created")
         => /\ task'[u][t].pc = "done"
            /\ userbot_clients'[u] = task[u][t].before[2]
            /\ userbot_start_times'[u] = task[u][t].before[3]
            /\ userbot_clients'[u] = userbot_clients[u]
            /\ userbot_start_times'[u] = userbot_start_times[u]
            /\ userbot_tasks'[u] = t
            /\ \A x \in TaskIds : task'[u][x].pc \in {"done", "unused"}
            /\ file' = file]_vars

\* C7 witness: a started task has returned for lack of a session file and is
\* the entry of the task map.
C7_Witness ==
    \E u \in Users : \E t \in TaskIds :
        /\ task[u][t].pc = "done" /\ task[u][t].nofile
        /\ userbot_tasks[u] = t
        /\ ~session_exists(file[u])

C11_SuccessCleansUp ==
    [][\A u \in Users : \A c \in ChatsOf(u) :
         /\ (StepOf({"code_received", "password_received"}, u, c)
                 /\ last'.ret.success
                 /\ conv[u][c] \in ActiveStates /\ conv'[u][c] = END)
             => /\ sc'[u] = NewSessionCreator
                /\ u \notin session_creators'
                /\ session_exists(file'[u])
                /\ file'[u] = "auth"
         /\ (StepOf({"code_received", "password_received"}, u, c)
                 /\ last'.escaped)
             => (u \in session_creators' /\ conv'[u][c] = conv[u][c])]_vars

\* C11 witness: a conversation ended by an accepted code, the file in place.
C11_Witness ==
    /\ last.op = "code_received" /\ last.ret.success /\ ~last.raised
    /\ conv[last.u][last.c] = END
    /\ file[last.u] = "auth"
    /\ sc[last.u] = NewSessionCreator

\* C12: session_creators holds at most one SessionCreator per user, and
\* get_session_creator for a registered user returns the registered object:
\* connect_callback leaves it and the registry as they are, and code_received
\* works on its client, phone number and phone_code_hash.
C12_OneCreatorPerUser ==
    /\ [](session_creators \subseteq Users)
    /\ [][\A u \in Users : \A c \in ChatsOf(u) :
            /\ (StepOf({"connect_callback"}, u, c) /\ last'.ret.success
                    /\ u \in session_creators)
                => (sc'[u] = sc[u] /\ session_creators' = session_creators)
            /\ (StepOf({"code_received"}, u, c) /\ u \in session_creators
                    /\ sc[u].client # "none" /\ sc[u].phone_number
                    /\ sc[u].phone_code_hash # 0)
                => last'.ret.message # "session_ended"]_vars

\* C12 witness: a second conversation of a user is opened while the user's
\* SessionCreator holds the phone_code_hash of the first.
C12_Witness ==
    /\ last.op = "connect_callback" /\ last.ret.success
    /\ last.u \in session_creators
    /\ sc[last.u].phone_code_hash # 0
    /\ \E c \in Chats : c # last.c /\ conv[last.u][c] = WAITING_CODE

\* C13: in WAITING_PHONE a text is handled by one call of start_login; when
\* it succeeds the conversation moves to WAITING_CODE, and when it fails, for
\* whatever reason, the conversation ends and does not reach WAITING_CODE.
C13_PhoneStep ==
    [][\A u \in Users : \A c \in ChatsOf(u) :
         (conv[u][c] = WAITING_PHONE /\ StepOf({"phone_received"}, u, c))
         => /\ \E o \in StartLoginOutcomes(net[u]) :
                  LET res == start_login(SessionCreatorOf(u), net[u], file[u], o)
                  IN  /\ last'.ret = res.ret
                      /\ sc'[u] = res.sc
                      /\ net'[u] = res.net
                      /\ file'[u] = res.file
            /\ net'[u].token = net[u].token + (IF last'.ret.success THEN 1 ELSE 0)
            /\ conv'[u][c] = IF last'.ret.success THEN WAITING_CODE ELSE END]_vars

\* C13 witness: a phone number was refused for too many attempts and the
\* conversation ended.
C13_Witness ==
    /\ last.op = "phone_received" /\ last.ret.message = "flood"
    /\ conv[last.u][last.c] = END

\* C14: in WAITING_2FA a text is handled by verify_2fa; on success the
\* conversation ends, and on every failure it stays in WAITING_2FA with the
\* SessionCreator still registered.
C14_PasswordStep ==
    [][\A u \in Users : \A c \in ChatsOf(u) :
         (conv[u][c] = WAITING_2FA /\ StepOf({"password_received"}, u, c))
         => IF last'.ret.success
            THEN conv'[u][c] = END
            ELSE conv'[u][c] = WAITING_2FA /\ u \in session_creators']_vars

\* C15: when sign_in answers that a password is needed, verify_code returns
\* success with needs_2fa, and code_received moves the conversation to
\* WAITING_2FA with the SessionCreator still registered, connected and
\* holding its phone number and phone_code_hash.
C15_NeedsPassword ==
    [][\A u \in Users : \A c \in ChatsOf(u) :
         /\ (StepOf({"code_received"}, u, c) /\ net'[u].password /\ ~net[u].password)
             => last'.ret = Ret(TRUE, "need_2fa", TRUE)
         /\ (StepOf({"code_received"}, u, c) /\ last'.ret.needs_2fa)
             => /\ last'.ret.success
                /\ conv'[u][c] = WAITING_2FA
                /\ u \in session_creators'
                /\ sc'[u].client = "connected"
                /\ sc'[u].phone_number
                /\ sc'[u].phone_code_hash = SessionCreatorOf(u).phone_code_hash
                /\ file'[u] = file[u]]_vars

\* C15 witness: the code was accepted and the network waits for the password.
C15_Witness ==
    /\ last.op = "code_received" /\ last.ret.needs_2fa
    /\ conv[last.u][last.c] = WAITING_2FA
    /\ net[last.u].password

----------------------------------------------------------------------------
\* Properties of the SessionCreator operations.

IsDigit(ch) == ch \in Digits

\* C16: no public SessionCreator operation (start_login, verify_code,
\* verify_2fa, get_user_info, disconnect) lets an exception of the Telethon
\* client escape to its caller.
C16_NoEscape == ~last.escaped

\* C17: verify_code passes to sign_in exactly the digits of the text in their
\* order; a text without a digit is refused without any call to the network,
\* the SessionCreator and the network's side stay as they are, and the
\* conversation stays in WAITING_CODE.
C17_DigitsOnly ==
    [][\A u \in Users : \A c \in ChatsOf(u) :
         StepOf({"code_received"}, u, c)
         => LET digits == SelectSeq(last'.call.code, IsDigit)
            IN  /\ last'.call.sent \in {<<>>, digits}
                /\ (digits # <<>> /\ last'.call.sent = <<>>)
                    => last'.ret.message \in {"session_ended", "error"}
                /\ digits = <<>>
                    => /\ ~last'.ret.success /\ ~last'.ret.needs_2fa
                       /\ last'.ret.message \in {"digits_only", "session_ended"}
                       /\ last'.call.sent = <<>> /\ last'.call.requests = 0
                       /\ sc'[u] = SessionCreatorOf(u)
                       /\ net'[u] = net[u] /\ file'[u] = file[u]
                       /\ conv'[u][c] = WAITING_CODE]_vars

\* C17 witness: a text without a digit was refused while a code was awaited
\* from a connected SessionCreator.
C17_Witness ==
    /\ last.op = "code_received" /\ last.ret.message = "digits_only"
    /\ conv[last.u][last.c] = WAITING_CODE
    /\ sc[last.u].client = "connected" /\ sc[last.u].phone_code_hash # 0

\* C18: every call of start_login either returns success with the
\* SessionCreator holding the phone_code_hash issued by this call, or returns
\* failure with the SessionCreator holding no phone_code_hash.
C18_TokenOrNone ==
    [][last'.op = "start_login"
         => IF last'.ret.success
            THEN /\ net'[1].token = net[1].token + 1
                 /\ sc'[1].phone_code_hash = net'[1].token
            ELSE sc'[1].phone_code_hash = 0]_vars

\* C19: verify_code with a code that does not match the last issued challenge
\* returns neither success nor needs_2fa, and when its resend succeeds the
\* SessionCreator holds the newly issued phone_code_hash.
C19_MismatchFails ==
    [][(last'.op = "verify_code"
            /\ ~CodeMatches(sc[1], net[1], SelectSeq(last'.call.code, IsDigit)))
         => /\ ~last'.ret.success /\ ~last'.ret.needs_2fa
            /\ file'[1] = file[1]
            /\ last'.call.requests = 1 /\ net'[1].token # net[1].token
                => /\ last'.ret.message \in {"invalid_resent", "expired_resent"}
                   /\ net'[1].token = net[1].token + 1
                   /\ sc'[1].phone_code_hash = net'[1].token]_vars

\* C19 witness: a wrong code was rejected as invalid and a new code sent.
C19_Witness ==
    /\ last.op = "verify_code" /\ last.ret.message = "invalid_resent"
    /\ last.call.sent # <<>> /\ last.call.sent # CodeOfToken(net[1].token - 1)
    /\ sc[1].phone_code_hash = net[1].token

----------------------------------------------------------------------------
\* C21: whenever the session file of a user exists, the user has signed in
\* (verify_code or verify_2fa succeeded) since the file was last absent: the
\* file holds an authorization.  No login that failed or was cancelled before
\* the sign-in leaves a file.
C21_FileImpliesAuthorized ==
    \A u \in Users : session_exists(file[u]) => file[u] = "auth"

C24_StopThenStart ==
    [][\A u \in Users :
         /\ \A t \in TaskIds :
              (h.wakeup /\ h.u = u /\ h.stopped # 0
                  /\ task[u][t].pc # "created" /\ task'[u][t].pc = "created")
              => /\ done(u, h.stopped)
                 /\ ~task[u][h.stopped].connected
                 /\ userbot_clients[u] = 0
                 /\ userbot_start_times[u] = 0
         /\ (h.wakeup /\ h.u = u /\ h' = Idle)
              => /\ last'.op = "handle_wakeup_userbot" /\ last'.ret.success
                 /\ Cardinality({t \in TaskIds : task'[u][t].pc \notin {"done", "unused"}}) = 1
                 /\ userbot_tasks'[u] # 0
                 /\ task'[u][userbot_tasks'[u]].pc = "created"]_vars

----------------------------------------------------------------------------
\* Further properties of the SessionCreator operations, checked under
\* SpecManager.

\* The messages verify_code returns when sign_in rejected the code as invalid
\* or expired.
RejectedMessages == {"invalid_resent", "invalid_no_resend",
                     "expired_resent", "expired_no_resend"}

\* C26: a verify_code whose code the network rejects as invalid or expired
\* makes exactly one send_code_request, whether that request succeeds or
\* not; on every other outcome verify_code makes none, and the network
\* issues no new challenge.
C26_OneResend ==
    [][last'.op = "verify_code"
         => IF last'.ret.message \in RejectedMessages
            THEN /\ last'.call.requests = 1
                 /\ last'.call.sent # <<>>
                 /\ net'[1].token \in {net[1].token, net[1].token + 1}
            ELSE /\ last'.call.requests = 0
                 /\ net'[1].token = net[1].token
                 /\ sc'[1].phone_code_hash = sc[1].phone_code_hash]_vars

\* C26 witness: the code had expired and the one new request failed.
C26_Witness ==
    /\ last.op = "verify_code" /\ last.ret.message = "expired_no_resend"
    /\ last.call.requests = 1

\* C27: verify_code on a SessionCreator without a client, without a phone
\* number or without a phone_code_hash returns failure, calls neither
\* connect nor sign_in nor send_code_request, and leaves the SessionCreator,
\* the network's side and the session file as they are.
C27_NoChallengeNoCall ==
    [][(last'.op = "verify_code"
            /\ (sc[1].client = "none" \/ ~sc[1].phone_number
                    \/ sc[1].phone_code_hash = 0))
         => /\ last'.ret = Ret(FALSE, "session_ended", FALSE)
            /\ last'.call.sent = <<>> /\ last'.call.requests = 0
            /\ sc'[1] = sc[1]
            /\ net'[1] = net[1]
            /\ file'[1] = file[1]]_vars

\* C27 witness: verify_code called after a start_login that failed on a new
\* SessionCreator: a client and a phone number, but no phone_code_hash.
C27_Witness ==
    /\ last.op = "verify_code" /\ last.ret.message = "session_ended"
    /\ sc[1].client # "none" /\ sc[1].phone_number /\ sc[1].phone_code_hash = 0
    /\ last.call.code # <<>> /\ SelectSeq(last.call.code, IsDigit) # <<>>

----------------------------------------------------------------------------
\* Properties of the auto-sleep timer, checked under SpecSleep.

\* Task t of user u is the authorized run in its run_until_disconnected.
Running(u, t) == task[u][t].pc = "run_until_disconnected"

\* C25: an authorized run that is connected and not cancelled is the
\* registered task, client and start time of its user, and leaves
\* run_until_disconnected only disconnected or cancelled.  With
\* AUTO_SLEEP_HOURS = 0 no run has a timer and no timer disconnects a client.
\* With AUTO_SLEEP_HOURS > 0 every such run has a timer while it is connected,
\* every run finishes in the end, and a run ended by a disconnect leaves no
\* client entry and no start-time entry.
C25_AutoSleep ==
    /\ [](\A t \in TaskIds :
            /\ (Running(1, t) /\ task[1][t].connected /\ ~task[1][t].cancel)
                 => /\ userbot_tasks[1] = t
                    /\ userbot_clients[1] = t
                    /\ userbot_start_times[1] = t
                    /\ config.AUTO_SLEEP_HOURS > 0 => task[1][t].timer = "armed"
            /\ config.AUTO_SLEEP_HOURS = 0 => task[1][t].timer = "none")
    /\ [][\A t \in TaskIds :
            /\ (Running(1, t) /\ ~Running(1, t)')
                 => (~task[1][t].connected \/ task[1][t].cancel)
            /\ (Running(1, t) /\ ~task[1][t].cancel /\ task'[1][t].pc = "done")
                 => /\ ~task'[1][t].connected
                    /\ userbot_clients'[1] = 0
                    /\ userbot_start_times'[1] = 0
            /\ task'[1][t].timer # task[1][t].timer
                 => config.AUTO_SLEEP_HOURS > 0]_vars
    /\ \A t \in TaskIds :
            (config.AUTO_SLEEP_HOURS > 0 /\ Running(1, t)) ~> (task[1][t].pc = "done")

\* C25 witness: a run that its timer disconnected has finished and its
\* entries are gone.
C25_Witness ==
    \E t \in TaskIds :
        /\ task[1][t].pc = "done" /\ task[1][t].loaded
        /\ task[1][t].timer = "disconnected"
        /\ userbot_clients[1] = 0 /\ userbot_start_times[1] = 0

\* C38: the auto_sleep_timer of a run disconnects the client of that run
\* only: a step in which the timer of task t wakes leaves the connection of
\* every other task of the user as it was, whatever was started, woken up
\* or logged out since the timer was created.
C38_TimerOwnClient ==
    [][\A t \in TaskIds :
          (task[1][t].timer = "armed" /\ task'[1][t].timer # "armed")
            => \A t2 \in TaskIds \ {t} :
                  task'[1][t2].connected = task[1][t2].connected]_vars

\* C38 witness: the timer of a finished run has woken and found its client
\* disconnected, and the later run of the user is connected with its own
\* timer still asleep.
C38_Witness ==
    \E t \in TaskIds : \E t2 \in TaskIds \ {t} :
        /\ task[1][t].pc = "done" /\ task[1][t].loaded
        /\ task[1][t].timer = "elapsed"
        /\ Running(1, t2) /\ task[1][t2].connected
        /\ task[1][t2].timer = "armed"
        /\ userbot_tasks[1] = t2 /\ userbot_clients[1] = t2

----------------------------------------------------------------------------
\* Properties of two users side by side, checked under SpecPair.

\* What the program holds for user u: the conversation, the registry entry
\* and its SessionCreator, the session file, the tasks and clients of the
\* Background Runner and the entries of the three maps.
Slice(u) == <<conv[u], u \in session_creators, sc[u], file[u], task[u],
              userbot_tasks[u], userbot_clients[u], userbot_start_times[u]>>

\* C23: a step of a login handler, of a Background Runner handler or of a
\* background task of user A changes nothing of what the program holds for
\* any other user B.
C23_OtherUsersUntouched ==
    [][LET changed == {b \in Users : Slice(b)' # Slice(b)}
           actor == IF h'.u # 0 THEN h'.u ELSE IF h.u # 0 THEN h.u ELSE last'.u
       IN  /\ Cardinality(changed) <= 1
           /\ (h' # h \/ last' # last) => changed \subseteq {actor}]_vars

\* C23 witness: user 1 has logged out while user 2 had a running, connected
\* Background Runner, a session file and a second login waiting for its code.
C23_Witness ==
    /\ last.op = "handle_logout" /\ last.u = 1
    /\ userbot_tasks[2] # 0 /\ userbot_clients[2] # 0 /\ userbot_start_times[2] # 0
    /\ task[2][1].connected
    /\ 2 \in session_creators /\ conv[2][1] = WAITING_CODE
    /\ session_exists(file[2])

----------------------------------------------------------------------------
\* C35: whenever remove_session_creator takes the SessionCreator of a user
\* out of session_creators, the client of that SessionCreator is not
\* connected: it has been disconnected first, or there never was one.
\* Checked under SpecLogin.
C35_RemovedDisconnected ==
    [][\A u \in Users :
          (u \in session_creators /\ u \notin session_creators')
            => sc'[u].client # "connected"]_vars

\* C36: while a conversation of a user is in WAITING_CODE or WAITING_2FA,
\* session_creators holds the user's SessionCreator and its client is
\* connected; in WAITING_CODE it also has a phone number and a
\* phone_code_hash.  Checked under SpecLogin, where user 1 talks to the bot
\* in two chats.
C36_WaitingHasManager ==
    \A u \in Users : \A c \in ChatsOf(u) :
        /\ conv[u][c] \in {WAITING_CODE, WAITING_2FA}
             => u \in session_creators /\ sc[u].client = "connected"
        /\ conv[u][c] = WAITING_CODE
             => sc[u].phone_number /\ sc[u].phone_code_hash # 0

----------------------------------------------------------------------------
\* The handlers that have returned because check_subscription reported the
\* user as not subscribed.
Unsubscribed(rec) ==
    \/ rec.op \in {"handle_start_userbot_unsubscribed",
                   "handle_wakeup_userbot_unsubscribed",
                   "handle_logout_unsubscribed"}
    \/ rec.op = "connect_callback" /\ ~rec.ret.success

\* C34: when check_subscription reports the user as not subscribed,
\* connect_callback returns without a SessionCreator registered or changed
\* and without a conversation state entered, and handle_start_userbot,
\* handle_wakeup_userbot and handle_logout return without a task created or
\* cancelled, a registry entry changed, a client disconnected or the session
\* file touched.  Checked under SpecRunner.
C34_UnsubscribedGated ==
    [][(last' # last /\ Unsubscribed(last'))
         => /\ session_creators' = session_creators
            /\ sc' = sc
            /\ conv' = conv
            /\ net' = net
            /\ task' = task
            /\ userbot_tasks' = userbot_tasks
            /\ userbot_clients' = userbot_clients
            /\ userbot_start_times' = userbot_start_times
            /\ file' = file
            /\ h' = Idle]_vars

\* C34 witness: the connect button pressed by a user reported as not
\* subscribed, who has a session file and a running task, has left no
\* SessionCreator registered and no conversation open.
C34_Witness ==
    /\ last.op = "connect_callback" /\ ~last.ret.success /\ last.u = 1
    /\ 1 \notin session_creators
    /\ \A c \in Chats : conv[1][c] \notin ActiveStates
    /\ file[1] = "auth"
    /\ userbot_tasks[1] # 0 /\ ~done(1, userbot_tasks[1])

----------------------------------------------------------------------------
\* The step removes the session file of user u: the file is gone after it,
\* or the step is a phone_received of the user, whose start_login removes
\* the file there is before it creates the new one.
Deleted(u) ==
    \/ file[u] # "none" /\ file'[u] = "none"
    \/ /\ last' # last /\ last'.op = "phone_received" /\ last'.u = u
       /\ file[u] # "none"

\* C37: a step that removes the session file of a user (handle_logout, the
\* unauthorized branch of run_userbot_for_user, delete_session in
\* start_login) leaves no client of a background task of that user
\* connected.  Checked under SpecRunner.
C37_DeletedWhenDisconnected ==
    [][\A u \in Users :
          Deleted(u) => \A t \in TaskIds : ~task'[u][t].connected]_vars

\* C37 without the deletion made by start_login: handle_logout and the
\* unauthorized branch.
RunnerDeletesWhenDisconnected ==
    [][\A u \in Users :
          (file[u] # "none" /\ file'[u] = "none")
            => \A t \in TaskIds : ~task'[u][t].connected]_vars

----------------------------------------------------------------------------
\* Task t of user u ends in this step.
Ends(u, t) == task[u][t].pc \notin {"done", "unused"} /\ task'[u][t].pc = "done"

----------------------------------------------------------------------------
\* C29: the handlers of the callbacks start_userbot, wakeup_userbot,
\* check_status and logout, when the update comes from a user other than
\* OWNER_ID, create and cancel no task of run_userbot_for_user, change no
\* entry of userbot_tasks, userbot_clients or userbot_start_times, and
\* leave the session file alone.  Checked under SpecPair.
C29_OnlyOwnerControls ==
    [][\A u \in Users \ {OWNER_ID} :
          (h' # h /\ ((h.update /\ h.u = u) \/ (h'.update /\ h'.u = u)))
            => /\ task'[u] = task[u]
               /\ userbot_tasks'[u] = userbot_tasks[u]
               /\ userbot_clients'[u] = userbot_clients[u]
               /\ userbot_start_times'[u] = userbot_start_times[u]
               /\ file'[u] = file[u]]_vars

----------------------------------------------------------------------------
\* Properties of the admin panel, checked under SpecAdmin.

\* The commands, callbacks and text handler of admin_commands.py.
AdminOps == {"cmd_admin_panel", "cmd_set_channel", "cmd_remove_channel",
             "cmd_check_config", "handle_admin_config", "handle_admin_set_channel",
             "handle_admin_add_channel_info", "handle_admin_channels_view",
             "handle_admin_channels_manage", "handle_admin_remove_channel_info",
             "handle_admin_refresh", "handle_admin_remove_channel",
             "handle_channel_remove", "handle_add_channel_message"}

\* The admin handlers that write the channel list.
AdminWriters == {"cmd_set_channel", "cmd_remove_channel", "handle_admin_remove_channel",
                 "handle_channel_remove", "handle_add_channel_message"}

\* C28: an admin command, callback or text message of a user other than
\* OWNER_ID changes neither the REQUIRED_CHANNEL attribute of the class
\* Config or of its instance, nor os.environ, nor the .env file; the steps
\* that do change one of them belong to the owner's admin handlers or to
\* the reload of a subscription check.
C28_OnlyOwnerChanges ==
    [][/\ (last'.op \in AdminOps /\ last'.u # OWNER_ID)
            => /\ config' = config
               /\ env' = env
               /\ ~last'.ret.success
       /\ (config'.instance # config.instance \/ env'.file # env.file)
            => last'.op \in AdminWriters /\ last'.u = OWNER_ID]_vars

\* C28 witness: a user other than the owner has sent a text message while
\* the .env file, the class attribute and the instance attribute all hold
\* a channel list the owner has written.
C28_Witness ==
    /\ last.op = "handle_add_channel_message" /\ last.u # OWNER_ID
    /\ env.file.present /\ env.file.value # <<>>
    /\ config.REQUIRED_CHANNEL = env.file.value
    /\ config.instance.kind = "str"

\* C30: check_subscription reports the user as subscribed only if
\* get_chat_member gave member, administrator or creator for every required
\* channel; a user for whom it gave another status for at least one channel
\* is not reported as subscribed; with no required channel the user is
\* reported as subscribed.
C30_SubscribedOnlyIfMember ==
    last.op = "handle_check_subscription"
        => LET channels == last.check.channels
               answers == last.check.answers
           IN  /\ last.ret.success
                    => \A i \in 1..Len(channels) : answers[i] \in MemberStatuses
               /\ (\E i \in 1..Len(channels) : answers[i] \in OtherStatuses)
                    => ~last.ret.success
               /\ channels = <<>> => last.ret.success

\* The part of C30 that holds: with every get_chat_member call answered by a
\* status, the user is reported as subscribed exactly if each status is
\* member, administrator or creator, and the missing channels are those of
\* the other statuses.
SubscribedWhenAnswered ==
    last.op = "handle_check_subscription"
        => LET channels == last.check.channels
               answers == last.check.answers
           IN  (\A i \in 1..Len(channels) : answers[i] \in MemberStatuses \cup OtherStatuses)
                 => /\ last.ret.success
                        <=> \A i \in 1..Len(channels) : answers[i] \in MemberStatuses
                    /\ \A i \in 1..Len(channels) :
                          answers[i] \in OtherStatuses
                            <=> \E j \in 1..Len(last.check.missing) :
                                    last.check.missing[j] = channels[i]

\* The settings after the step.
SettingsAfter == [config |-> config', env |-> env']

\* C31: once the owner has removed the required channel (/removechannel,
\* the callback admin_remove_channel, or the removal of the last channel of
\* the list) and the .env file has no REQUIRED_CHANNEL line,
\* get_required_channels returns the empty list and check_subscription
\* reports every user as subscribed; and after each change an admin handler
\* makes, the .env file, the list get_required_channels makes of os.environ
\* and config.REQUIRED_CHANNEL hold the same channels.
C31_RemovalTurnsGatingOff ==
    [][/\ ~env'.file.present
            => /\ get_required_channels(SettingsAfter).channels = <<>>
               /\ last'.op = "handle_check_subscription" => last'.ret.success
       /\ (last'.op \in AdminWriters /\ last'.u = OWNER_ID
                /\ last'.ret.message \in {"set", "added", "removed"})
            => /\ get_required_channels(SettingsAfter).channels = env'.file.value
               /\ REQUIRED_CHANNEL(config') = env'.file.value]_vars

\* C32: when handle_channel_remove has removed the channel of the pressed
\* button, the channel management view it shows is page 0 of the list that
\* remains: the page number is 0 and the remove buttons are those of the
\* first per_page channels of the list without the removed one.
C32_PageZeroAfterRemove ==
    [][(last'.op = "handle_channel_remove" /\ last'.ret.message = "removed")
         => /\ view'.page = 0
            /\ view'.buttons
                 = manage_buttons(pop(get_required_channels(Settings).channels,
                                      last'.button.index), 0)]_vars

\* C33: in every state the program reaches, a text message of the owner
\* that names a channel toggles it in the list get_required_channels
\* returns: the channel is removed if it was in the list and appended if it
\* was not, the other channels keep their places, no channel is in the list
\* twice, and the same text sent once more gives back the list from before.
C33_TextToggles ==
    \A text \in {t \in AdminTexts : valid_channel_format(t)} :
        LET before == get_required_channels(Settings).channels
            once == add_channel_message(Settings, text).after
            after == get_required_channels(once).channels
            twice == add_channel_message(once, text).after
        IN  /\ after = IF In(parse_channel_id(text), before)
                       THEN remove(before, parse_channel_id(text))
                       ELSE Append(before, parse_channel_id(text))
            /\ \A i, j \in 1..Len(after) : after[i] = after[j] => i = j
            /\ get_required_channels(twice).channels = before

\* The part of C33 that holds: while the toggle leaves a channel in the
\* list, the list returned afterwards is the one the handler wrote, and the
\* same text sent once more gives back the channels from before, the
\* toggled channel now last.
TogglesWhileNotEmpty ==
    \A text \in {t \in AdminTexts : valid_channel_format(t)} :
        LET before == get_required_channels(Settings).channels
            channel == parse_channel_id(text)
            once == add_channel_message(Settings, text).after
            after == get_required_channels(once).channels
            twice == get_required_channels(add_channel_message(once, text).after).channels
        IN  (once.env.file.present /\ add_channel_message(once, text).after.env.file.present)
              => /\ after = IF In(channel, before) THEN remove(before, channel)
                            ELSE Append(before, channel)
                 /\ twice = IF In(channel, before) THEN Append(remove(before, channel), channel)
                            ELSE before

----------------------------------------------------------------------------
\* C40: a press of a remove button by the owner, whatever was done to the
\* list since the management view with the button was shown: when the
\* channel written on the button is in the list the handler reads, that
\* channel is the one taken out; when it is not, nothing is taken out.
\* Checked under SpecAdmin.
C40_RemovesDisplayedChannel ==
    [][(last'.op = "handle_channel_remove" /\ last'.u = OWNER_ID)
         => LET channels == get_required_channels(Settings).channels
                button == last'.button
            IN  IF In(button.channel, channels)
                THEN /\ last'.ret.message = "removed"
                     /\ channels[button.index + 1] = button.channel
                ELSE last'.ret.message = "not_found"]_vars

====
